---- MODULE Spec2Model ----
(***************************************************************************)
(* The conway backend: record store (database.ts), work queue (queue.ts),  *)
(* summarization worker (summarization-worker.ts) and the request handlers *)
(* of server.ts.  Every async handler is cut at its await points: a call   *)
(* to the synchronous sqlite driver or to the in-process queue takes       *)
(* effect when it is made, and the code after the await is a later step.   *)
(***************************************************************************)
EXTENDS Integers, Sequences, FiniteSets, TLC

\* ------------------------------------------------------------------ bounds
\* MAX_SUMMARIES_PER_CATEGORY is read from the environment at start-up
\* (default 10); the model runs every ceiling from 1 to MaxCeiling.
MaxCeiling == 2

\* Cap on the normal-event counter of the counters table.
MaxNormalCount == 1

\* Number of POST /reset requests a run may hold.
MaxResets == 1

\* PollerConfig defaults, in ms.
initialBackoff == 5000
maxBackoff == 300000
backoffMultiplier == 2
\* The poller is constructed with pollInterval: 10000.
pollInterval == 10000
\* GET /events?per_page=10, and the ceiling of seenEventIds.
PerPage == 10
SeenCeiling == 1000
\* The events API issues at most this many distinct ids.
MaxIssued == 1012
\* Math.random() in increaseBackoff gives a factor in [0.8, 1.2), in the
\* retry-after branch a factor in [0.9, 1.1); in percent, ends and middle.
BackoffJitters == {80, 100, 119}
RetryJitters == {90, 100, 109}
\* RepoContextFetcher: CACHE_TTL in ms, and the floor of hasGraphQLCapacity(50).
CACHE_TTL == 300000
MinPoints == 50
\* Clock advances a run of the fetcher sees.
MaxClockSteps == 3
\* Two repositories, and a name without a slash.
RepoNames == {"o/r1", "o/r2", "noslash"}
\* The clock advances by 1 ms or by one ms less than the TTL.
ClockAdvances == {1, CACHE_TTL - 1}
Absent == [repo |-> "absent", fetchedAt |-> 0, checks |-> FALSE]
NoEntry == [data |-> Absent, timestamp |-> 0 - 1]
NoRateLimit == [remaining |-> 0 - 1, reset |-> 0 - 1]
\* x-ratelimit-remaining / x-ratelimit-reset (seconds) of a GraphQL response.
RateLimits == {[remaining |-> m, reset |-> t] : m \in {49, 50}, t \in {300, 3600}}
NoCall == [op |-> "none", at |-> 0, repo |-> "none", result |-> Absent]
\* How fetchGraphQLData ends.
GraphQLOutcomes == {"repository", "errors", "no_repository", "network_error",
                    "timeout", "parse_error"}
\* retryStrategy gives up once times > 5.
RetryBudget == 5
\* Queue.push calls a direct caller makes.
MaxPushes == 4
\* headers['retry-after'] in seconds; NoRetryAfter is the absent header.
NoRetryAfter == -1
RetryAfters == {NoRetryAfter, 1, 60, 3600}
Statuses == {"200", "304", "403", "429", "500"}

EventIds == {"e1", "e2"}
Handlers == {"h1", "h2"}
Clients == {"c1"}
Subscribers == {"c1", "c2"}

\* The categories POST /internal/event is called with.
Categories == {"security", "code_quality", "normal"}

BudgetCategories == {"security", "code_quality"}

\* What the completion service can answer with a parseable JSON object.
Classifications == {"ACTIVE_ATTACK", "POLICY_VIOLATION"}

NoSummary == "NoSummary"
NoEvent == "NoEvent"
NoJob == [eventId |-> "none", category |-> "none"]
NoResponse == [status |-> "none", body |-> "none"]
NoError == [cause |-> "none", mentions429 |-> FALSE]
NoResult == [op |-> "none", event_id |-> "none", content |-> "none", wasInserted |-> FALSE]
NoBroadcast == [kind |-> "none", eventId |-> "none", body |-> "none", attempted |-> {},
                failed |-> {}, delivered |-> {}]

VARIABLES
  events,            \* events table: event id -> category, or NoEvent
  summaries,         \* summaries table: rows [event_id, content]
  normalCounter,     \* counters row 'normal'
  dbResult,          \* what the last direct Database call returned
  useInMemory,       \* Queue.useInMemory
  redis,             \* Queue.redis: "null" or "connected"
  inMemoryQueue,     \* Queue.inMemoryQueue
  redisList,         \* the list conway:summarization_queue of the shared store
  apiKey,            \* OPENAI_API_KEY is set
  started,           \* start() has run: the server listens
  running,           \* SummarizationWorker.running
  processingEvents,  \* SummarizationWorker.processingEvents
  wpc,               \* where the worker's processLoop stands
  wjob,              \* the job the worker holds
  wexisting,         \* processJob's local `existing`
  MAX_SUMMARIES_PER_CATEGORY, \* the ceiling the process was started with
  API_BUDGET,        \* per-category counters
  pendingEvents,     \* PendingSet
  sseClients,        \* connected live subscribers
  hpc, hid, hval,    \* GET /event/:id/summary handlers: position, id, local
  hresp,             \* the response each of them sent to its last request
  rpc,               \* POST /reset handler position
  broadcastMsg,      \* the message broadcast by the last step, if any
  werror,            \* processJob's caught `error` while the job is requeued
  resets,            \* observer: POST /reset requests received so far
  resetAlone,        \* observer: no other operation took a step during the
                     \* reset in progress (or the last one)
  afterReset,        \* observer: "resetting" from the start of a reset, "yes"
                     \* from its end, "no" from the next summary request on
  called,            \* observer: event ids the completion API was called for
  ppc,               \* GitHubEventsPoller.poll: where the loop stands
  currentBackoff,    \* GitHubEventsPoller.currentBackoff, in ms
  waitTime,          \* the wait of the sleep in progress after a non-success
  pollStatus,        \* statusCode of the cycle in progress (or "error")
  pollData,          \* ids of the events in the response of the cycle in progress
  seenEventIds,      \* GitHubEventsPoller.seenEventIds, in insertion order
  newEvents,         \* poll's local newEvents
  forwarded,         \* ids passed to sendToBackend in the cycle in progress
  scored,            \* poll's local scoredEvents: one record per new event
  nextId,            \* the next event id the events API has not issued yet
  client,            \* the IORedis client made by Queue.init: its connection status
  times,             \* reconnection attempts of the client since it last connected
  pushedLog,         \* a direct caller's record of its Queue.push calls, in order
  poppedLog,         \* a direct caller's record of the jobs Queue.pop returned
  cache,             \* RepoContextFetcher.cache: repo name -> {data, timestamp}
  lastGraphQLRateLimit, \* RepoContextFetcher.lastGraphQLRateLimit
  now,               \* Date.now(), in ms since the fetcher was made
  clockSteps,        \* how many times the clock has been seen to advance
  wreply,            \* the classification field of the reply processJob parsed last
  announced,         \* observer: per event id, the 'summary' messages broadcast
                     \* since the last reset ended (counted up to 2)
  createdAt,         \* events table: the created_at column of each row
  listed,            \* what the getAllEvents calls since the last write returned,
                     \* newest first (at most two are kept)
  fpc,               \* fetchRepoContext: idle, awaiting GraphQL, awaiting check runs
  frepo,             \* fetchRepoContext's repoFullName while it awaits
  fcall              \* the last call of the fetcher that returned: when, and its result

dbVars == <<events, summaries, normalCounter, dbResult>>
queueVars == <<useInMemory, redis, inMemoryQueue, redisList>>
workerVars == <<running, processingEvents, wpc, wjob, wexisting, werror>>
gateVars == <<MAX_SUMMARIES_PER_CATEGORY, API_BUDGET, pendingEvents>>
handlerVars == <<hpc, hid, hval, hresp>>
resetVars == <<rpc>>
obsVars == <<resets, resetAlone, afterReset, called>>
pollerVars == <<ppc, currentBackoff, waitTime, pollStatus, pollData, seenEventIds,
                newEvents, forwarded, scored, nextId>>
clientVars == <<client, times>>
callerVars == <<pushedLog, poppedLog>>
contextVars == <<cache, lastGraphQLRateLimit, now, clockSteps, fpc, frepo, fcall>>
listingVars == <<createdAt, listed>>
\* The reply the worker parsed and the record of its 'summary' messages.
replyVars == <<wreply>>
historyVars == <<announced>>
\* What no route and no step of the worker of server.ts touches.
besideVars == <<pollerVars, clientVars, callerVars, contextVars, listingVars>>
\* What the steps of the routes and of the worker leave alone, but for the
\* worker's parse (wreply), its callback and the reset (announced).
outsideVars == <<besideVars, replyVars, historyVars>>
vars == <<events, summaries, normalCounter, dbResult, useInMemory, redis,
          inMemoryQueue, redisList, apiKey, started, running, processingEvents,
          wpc, wjob, wexisting, API_BUDGET, pendingEvents, sseClients, hpc, hid,
          hval, hresp, rpc, broadcastMsg, werror, resets, resetAlone,
          afterReset, called, MAX_SUMMARIES_PER_CATEGORY, outsideVars>>

\* ---------------------------------------------------------------- Database
\* The summaries table is a set of rows.  INSERT OR IGNORE INTO summaries:
\* event_id is UNIQUE, so the insert is ignored when a row of that event id
\* exists.
\* The variant the UNIQUE column with OR IGNORE rules out: INSERT OR REPLACE,
\* where the last writer wins.
storeSummaryOrReplace(tbl, id, content) ==
  {r \in tbl : r.event_id # id} \cup {[event_id |-> id, content |-> content]}

storeSummary(tbl, id, content) ==
  IF \E r \in tbl : r.event_id = id
    THEN tbl
    ELSE tbl \cup {[event_id |-> id, content |-> content]}

\* A lookup that never finds a row.
getSummaryNever(tbl, id) == NoSummary

\* result.changes > 0
wasInserted(tbl, id) == ~(\E r \in tbl : r.event_id = id)

\* SELECT * FROM summaries WHERE event_id = ?
getSummaryByEventId(tbl, id) ==
  IF \E r \in tbl : r.event_id = id
    THEN (CHOOSE r \in tbl : r.event_id = id).content
    ELSE NoSummary

\* INSERT OR REPLACE INTO events
storeEvent(tbl, id, category) == [tbl EXCEPT ![id] = category]

\* SELECT * FROM events WHERE id = ?
getEvent(tbl, id) == tbl[id]

\* A clearAll without its DELETE FROM summaries.
clearAllButSummaries ==
  /\ events' = [e \in EventIds |-> NoEvent]
  /\ normalCounter' = 0
  /\ UNCHANGED summaries

\* DELETE FROM events; DELETE FROM summaries; UPDATE counters SET count = 0
clearAll ==
  /\ events' = [e \in EventIds |-> NoEvent]
  /\ summaries' = {}
  /\ normalCounter' = 0

\* ------------------------------------------------------------------- Queue
QueueItems == IF useInMemory THEN inMemoryQueue ELSE redisList

\* A push at the head of the queue: unshift / LPUSH.
pushAtHead(job) ==
  IF useInMemory
    THEN /\ inMemoryQueue' = <<job>> \o inMemoryQueue
         /\ UNCHANGED <<useInMemory, redis, redisList>>
    ELSE /\ redis = "connected"
         /\ redisList' = <<job>> \o redisList
         /\ UNCHANGED <<useInMemory, redis, inMemoryQueue>>

\* Queue.push: inMemoryQueue.push(job) or RPUSH
push(job) ==
  IF useInMemory
    THEN /\ inMemoryQueue' = Append(inMemoryQueue, job)
         /\ UNCHANGED <<useInMemory, redis, redisList>>
    ELSE /\ redis = "connected"
         /\ redisList' = Append(redisList, job)
         /\ UNCHANGED <<useInMemory, redis, inMemoryQueue>>

\* ------------------------------------------------------------- budget gate
\* Gate variants the code does not implement: a gate that still lets a
\* request through at the ceiling, and a gate that never closes.
canGenerateAtCeiling(category) ==
  API_BUDGET[category] <= MAX_SUMMARIES_PER_CATEGORY

canGenerateAlways(category) == TRUE

canGenerateSummary(category) == API_BUDGET[category] < MAX_SUMMARIES_PER_CATEGORY

\* A counter that advances by two.
incrementSummaryCountTwice(category) ==
  API_BUDGET' = [API_BUDGET EXCEPT ![category] = @ + 2]

incrementSummaryCount(category) ==
  API_BUDGET' = [API_BUDGET EXCEPT ![category] = @ + 1]

\* A handler that never finds the id in PendingSet.
pendingHasNever(id) == FALSE

\* pendingEvents.has(eventId)
pendingHas(id) == id \in pendingEvents

\* An axis choice that keeps the security axis for 'security' alone.
JobCategorySecurityOnly(cat) == IF cat = "security" THEN "security" ELSE "code_quality"

\* buildPrompt: isSecurity = category === 'security' picks the template.
buildPrompt(job) ==
  IF job.category = "security" THEN "security_template" ELSE "code_quality_template"

\* server.ts:203
JobCategory(cat) == IF cat = "code_quality" THEN "code_quality" ELSE "security"

\* ---------------------------------------------------------------- fan-out
\* A broadcast that empties sseClients as soon as one write throws.
broadcastDroppingAll(kind, id, body) ==
  \E dead \in SUBSET sseClients :
    /\ sseClients' = IF dead = {} THEN sseClients ELSE {}
    /\ broadcastMsg' = [kind |-> kind, eventId |-> id, body |-> body,
                        attempted |-> sseClients, failed |-> dead,
                        delivered |-> sseClients \ dead]

\* broadcast(type, payload): write to every subscriber; one whose write
\* throws is deleted from sseClients.
broadcast(kind, id, body) ==
  \E dead \in SUBSET sseClients :
    /\ sseClients' = sseClients \ dead
    /\ broadcastMsg' = [kind |-> kind, eventId |-> id, body |-> body,
                        attempted |-> sseClients, failed |-> dead,
                        delivered |-> sseClients \ dead]

NoBroadcastStep == broadcastMsg' = NoBroadcast /\ UNCHANGED sseClients


\* What a step of any operation but the reset leaves of the observers: it
\* ends the reset's being alone when it falls inside one.
Observe ==
  /\ resetAlone' = (resetAlone /\ rpc = "idle")
  /\ UNCHANGED <<resets, afterReset, called>>

Init ==
  /\ events = [e \in EventIds |-> NoEvent]
  /\ summaries = {}
  /\ normalCounter = 0
  /\ dbResult = NoResult
  /\ useInMemory = FALSE
  /\ redis = "null"
  /\ inMemoryQueue = <<>>
  /\ redisList = <<>>
  /\ apiKey \in BOOLEAN
  /\ started = FALSE
  /\ running = FALSE
  /\ processingEvents = {}
  /\ wpc = "idle"
  /\ wjob = NoJob
  /\ wexisting = NoSummary
  /\ MAX_SUMMARIES_PER_CATEGORY \in 1..MaxCeiling
  /\ API_BUDGET = [c \in BudgetCategories |-> 0]
  /\ pendingEvents = {}
  /\ sseClients = {}
  /\ hpc = [h \in Handlers |-> "idle"]
  /\ hid = [h \in Handlers |-> "none"]
  /\ hval = [h \in Handlers |-> "none"]
  /\ rpc = "idle"
  /\ hresp = [h \in Handlers |-> NoResponse]
  /\ broadcastMsg = NoBroadcast
  /\ werror = NoError
  /\ resets = 0
  /\ resetAlone = FALSE
  /\ afterReset = "no"
  /\ called = {}
  /\ ppc = "idle"
  /\ currentBackoff = initialBackoff
  /\ waitTime = 0
  /\ pollStatus = "none"
  /\ pollData = <<>>
  /\ seenEventIds = <<>>
  /\ newEvents = <<>>
  /\ forwarded = <<>>
  /\ scored = <<>>
  /\ nextId = 1
  /\ client = "none"
  /\ times = 0
  /\ pushedLog = <<>>
  /\ poppedLog = <<>>
  /\ cache = [r \in RepoNames |-> NoEntry]
  /\ lastGraphQLRateLimit = NoRateLimit
  /\ now = 0
  /\ clockSteps = 0
  /\ fpc = "idle"
  /\ frepo = "none"
  /\ fcall = NoCall
  /\ createdAt = [e \in EventIds |-> 0]
  /\ wreply = "none"
  /\ announced = [e \in EventIds |-> 0]
  /\ listed = <<>>

\* ------------------------------------------------------------------ start()
\* start(): db.init, queue.init, worker.start, app.listen.  queue.init picks
\* the backend: no REDIS_URL or a failed connect gives the in-process queue.
\* A start that runs the drain loop whether or not there is a credential.
StartLoopAlways ==
  /\ ~started
  /\ started' = TRUE
  /\ \E connected \in BOOLEAN :
       /\ useInMemory' = ~connected
       /\ redis' = IF connected THEN "connected" ELSE "null"
  /\ running' = TRUE
  /\ UNCHANGED <<dbVars, inMemoryQueue, redisList, apiKey, processingEvents, wpc,
                 wjob, wexisting, werror, gateVars, sseClients, handlerVars, resetVars,
                 broadcastMsg>>
  /\ Observe
  /\ UNCHANGED outsideVars

Start ==
  /\ ~started
  /\ started' = TRUE
  /\ \E connected \in BOOLEAN :
       /\ useInMemory' = ~connected
       /\ redis' = IF connected THEN "connected" ELSE "null"
  /\ running' = apiKey
  /\ UNCHANGED <<dbVars, inMemoryQueue, redisList, apiKey, processingEvents, wpc,
                 wjob, wexisting, werror, gateVars, sseClients, handlerVars, resetVars,
                 broadcastMsg>>
  /\ Observe
  /\ UNCHANGED outsideVars

\* ------------------------------------------------------------ GET /stream
StreamConnect(c) ==
  /\ started
  /\ c \notin sseClients
  /\ sseClients' = sseClients \cup {c}
  /\ broadcastMsg' = NoBroadcast
  /\ UNCHANGED <<dbVars, queueVars, apiKey, started, workerVars, gateVars,
                 handlerVars, resetVars>>
  /\ Observe
  /\ UNCHANGED outsideVars

\* req.on('close')
StreamClose(c) ==
  /\ c \in sseClients
  /\ sseClients' = sseClients \ {c}
  /\ broadcastMsg' = NoBroadcast
  /\ UNCHANGED <<dbVars, queueVars, apiKey, started, workerVars, gateVars,
                 handlerVars, resetVars>>
  /\ Observe
  /\ UNCHANGED outsideVars

\* ---------------------------------------------------- POST /internal/event
\* A normal event bumps the counter and is stored; any other is stored; the
\* event is broadcast.  The handler's database calls are synchronous and the
\* handler is taken as one step.
InternalEvent(id, category) ==
  /\ started
  /\ IF category = "normal"
       THEN /\ normalCounter < MaxNormalCount
            /\ normalCounter' = normalCounter + 1
       ELSE UNCHANGED normalCounter
  /\ events' = storeEvent(events, id, category)
  /\ broadcast("event", id, "none")
  /\ UNCHANGED <<summaries, dbResult, queueVars, apiKey, started, workerVars,
                 gateVars, handlerVars, resetVars>>
  /\ Observe
  /\ UNCHANGED outsideVars

\* ------------------------------------------------ GET /event/:eventId/summary
\* The request arrives: db.getSummaryByEventId(eventId) is called.
SummaryRequest(h, id) ==
  /\ started
  /\ hpc[h] = "idle"
  /\ hpc' = [hpc EXCEPT ![h] = "gotSummary"]
  /\ hid' = [hid EXCEPT ![h] = id]
  /\ hval' = [hval EXCEPT ![h] = getSummaryByEventId(summaries, id)]
  /\ hresp' = [hresp EXCEPT ![h] = NoResponse]
  /\ NoBroadcastStep
  /\ UNCHANGED <<dbVars, queueVars, apiKey, started, workerVars, gateVars,
                 resetVars>>
  /\ resetAlone' = (resetAlone /\ rpc = "idle")
  /\ afterReset' = "no"
  /\ UNCHANGED <<resets, called>>
  /\ UNCHANGED outsideVars

\* res.json(...) / res.status(...).json(...): the handler ends.
\* A handler that answers with the status alone.
RespondWithoutBody(h, status, body) ==
  /\ hresp' = [hresp EXCEPT ![h] = [status |-> status, body |-> "none"]]
  /\ hpc' = [hpc EXCEPT ![h] = "idle"]
  /\ hval' = [hval EXCEPT ![h] = "none"]
  /\ UNCHANGED hid

Respond(h, status, body) ==
  /\ hresp' = [hresp EXCEPT ![h] = [status |-> status, body |-> body]]
  /\ hpc' = [hpc EXCEPT ![h] = "idle"]
  /\ hval' = [hval EXCEPT ![h] = "none"]
  /\ UNCHANGED hid

\* After the await: the existing-summary branch, the pending branch, or the
\* call of db.getEvent(eventId).
AfterGetSummary(h) ==
  /\ hpc[h] = "gotSummary"
  /\ IF hval[h] # NoSummary
       THEN /\ pendingEvents' = pendingEvents \ {hid[h]}
            /\ Respond(h, "summary", hval[h])
       ELSE IF pendingHas(hid[h])
         THEN /\ Respond(h, "generating", "none")
              /\ UNCHANGED pendingEvents
         ELSE /\ hval' = [hval EXCEPT ![h] = getEvent(events, hid[h])]
              /\ hpc' = [hpc EXCEPT ![h] = "gotEvent"]
              /\ UNCHANGED <<pendingEvents, hid, hresp>>
  /\ NoBroadcastStep
  /\ UNCHANGED <<dbVars, queueVars, apiKey, started, workerVars, API_BUDGET,
                 MAX_SUMMARIES_PER_CATEGORY, resetVars>>
  /\ Observe
  /\ UNCHANGED outsideVars

\* After await db.getEvent: 404, budget exhausted, or the enqueue sequence
\* pendingEvents.add; incrementSummaryCount; queue.push.
AfterGetEvent(h) ==
  /\ hpc[h] = "gotEvent"
  /\ IF hval[h] = NoEvent
       THEN /\ Respond(h, "not_found", "none")
            /\ UNCHANGED <<gateVars, queueVars>>
       ELSE IF ~canGenerateSummary(JobCategory(hval[h]))
         THEN /\ Respond(h, "budget_exhausted", JobCategory(hval[h]))
              /\ UNCHANGED <<gateVars, queueVars>>
         ELSE /\ pendingEvents' = pendingEvents \cup {hid[h]}
              /\ incrementSummaryCount(JobCategory(hval[h]))
              /\ push([eventId |-> hid[h], category |-> JobCategory(hval[h])])
              /\ hpc' = [hpc EXCEPT ![h] = "pushed"]
              /\ hval' = [hval EXCEPT ![h] = "none"]
              /\ UNCHANGED <<hid, hresp, MAX_SUMMARIES_PER_CATEGORY>>
  /\ NoBroadcastStep
  /\ UNCHANGED <<dbVars, apiKey, started, workerVars, resetVars>>
  /\ Observe
  /\ UNCHANGED outsideVars

\* The enqueue sequence when queue.push rejects (the shared store refuses
\* the RPUSH): pendingEvents.add and incrementSummaryCount have run, the catch
\* block answers 500 and undoes nothing.
AfterGetEventPushThrows(h) ==
  /\ hpc[h] = "gotEvent"
  /\ hval[h] # NoEvent
  /\ canGenerateSummary(JobCategory(hval[h]))
  /\ ~useInMemory
  /\ pendingEvents' = pendingEvents \cup {hid[h]}
  /\ incrementSummaryCount(JobCategory(hval[h]))
  /\ Respond(h, "error", "none")
  /\ NoBroadcastStep
  /\ UNCHANGED <<dbVars, queueVars, apiKey, started, workerVars,
                 MAX_SUMMARIES_PER_CATEGORY, resetVars>>
  /\ Observe
  /\ UNCHANGED outsideVars

\* After await queue.push: the 'generating' response.
AfterPush(h) ==
  /\ hpc[h] = "pushed"
  /\ Respond(h, "generating", "none")
  /\ NoBroadcastStep
  /\ UNCHANGED <<dbVars, queueVars, apiKey, started, workerVars, gateVars,
                 resetVars>>
  /\ Observe
  /\ UNCHANGED outsideVars

\* -------------------------------------------------------------- POST /reset
\* The request arrives: db.clearAll() is called.
ResetStart ==
  /\ started
  /\ rpc = "idle"
  /\ resets < MaxResets
  /\ resets' = resets + 1
  /\ clearAll
  /\ rpc' = "dbCleared"
  /\ NoBroadcastStep
  /\ resetAlone' = TRUE
  /\ afterReset' = "resetting"
  /\ UNCHANGED <<dbResult, queueVars, apiKey, started, workerVars, gateVars,
                 handlerVars, called>>
  /\ UNCHANGED outsideVars

\* After await db.clearAll(): queue.clear().  The in-process queue is emptied
\* at once; the shared one is counted first (LLEN) and deleted after the await.
ResetQueueClear ==
  /\ rpc = "dbCleared"
  /\ IF useInMemory
       THEN /\ inMemoryQueue' = <<>>
            /\ rpc' = "queueCleared"
       ELSE /\ redis = "connected"
            /\ rpc' = "counted"
            /\ UNCHANGED inMemoryQueue
  /\ NoBroadcastStep
  /\ UNCHANGED <<dbVars, useInMemory, redis, redisList, apiKey, started,
                 workerVars, gateVars, handlerVars, obsVars>>
  /\ UNCHANGED outsideVars

\* After await redis.llen: redis.del(queueKey)
ResetRedisDel ==
  /\ rpc = "counted"
  /\ redisList' = <<>>
  /\ rpc' = "queueCleared"
  /\ NoBroadcastStep
  /\ UNCHANGED <<dbVars, useInMemory, redis, inMemoryQueue, apiKey, started,
                 workerVars, gateVars, handlerVars, obsVars>>
  /\ UNCHANGED outsideVars

\* After await queue.clear(): the counters, PendingSet, broadcastReset and
\* the response.
ResetFinish ==
  /\ rpc = "queueCleared"
  /\ API_BUDGET' = [c \in BudgetCategories |-> 0]
  /\ pendingEvents' = {}
  /\ broadcast("reset", "none", "none")
  /\ rpc' = "idle"
  /\ afterReset' = IF afterReset = "resetting" THEN "yes" ELSE "no"
  /\ UNCHANGED <<dbVars, queueVars, apiKey, started, workerVars, handlerVars,
                 MAX_SUMMARIES_PER_CATEGORY, resets, resetAlone, called>>
  /\ announced' = [e \in EventIds |-> 0]
  /\ UNCHANGED <<besideVars, replyVars>>

\* ------------------------------------------------------- SummarizationWorker
\* What generateSummary and parseSummaryResponse can end with.  An error
\* carries whether its message contains '429' or 'Too Many Requests': the
\* message of an HTTP 429 does, the message of a JSON syntax error quotes the
\* offending position or text of the reply and may.
CompletionErrors ==
  { [cause |-> "http_429", mentions429 |-> TRUE],
    [cause |-> "http_other", mentions429 |-> FALSE],
    [cause |-> "network", mentions429 |-> FALSE],
    [cause |-> "no_json", mentions429 |-> FALSE],
    [cause |-> "malformed_json", mentions429 |-> FALSE],
    [cause |-> "malformed_json", mentions429 |-> TRUE] }

\* server.ts:560-562
is429(error) == error.mentions429

\* queue.pop() is called.  In process: an empty queue waits 5 s before the
\* shift, a non-empty one is shifted at once.  Shared: BLPOP is issued.
WorkerPop ==
  /\ running
  /\ wpc = "idle"
  /\ IF useInMemory
       THEN IF inMemoryQueue = <<>>
              THEN /\ wpc' = "popWait"
                   /\ UNCHANGED <<inMemoryQueue, wjob>>
              ELSE /\ wjob' = Head(inMemoryQueue)
                   /\ inMemoryQueue' = Tail(inMemoryQueue)
                   /\ wpc' = "popped"
       ELSE /\ redis = "connected"
            /\ wpc' = "blpop"
            /\ UNCHANGED <<inMemoryQueue, wjob>>
  /\ NoBroadcastStep
  /\ UNCHANGED <<dbVars, useInMemory, redis, redisList, apiKey, started, running, werror,
                 processingEvents, wexisting, gateVars, handlerVars, resetVars>>
  /\ Observe
  /\ UNCHANGED outsideVars

\* The 5 s timer of the in-process pop fires: inMemoryQueue.shift() || null
WorkerPopTimeout ==
  /\ wpc = "popWait"
  /\ IF inMemoryQueue = <<>>
       THEN /\ wpc' = "idle"
            /\ UNCHANGED <<inMemoryQueue, wjob>>
       ELSE /\ wjob' = Head(inMemoryQueue)
            /\ inMemoryQueue' = Tail(inMemoryQueue)
            /\ wpc' = "popped"
  /\ NoBroadcastStep
  /\ UNCHANGED <<dbVars, useInMemory, redis, redisList, apiKey, started, running, werror,
                 processingEvents, wexisting, gateVars, handlerVars, resetVars>>
  /\ Observe
  /\ UNCHANGED outsideVars

\* BLPOP answers: the head of the list, or null after 5 s of an empty list.
WorkerBlpop ==
  /\ wpc = "blpop"
  /\ IF redisList = <<>>
       THEN /\ wpc' = "idle"
            /\ UNCHANGED <<redisList, wjob>>
       ELSE /\ wjob' = Head(redisList)
            /\ redisList' = Tail(redisList)
            /\ wpc' = "popped"
  /\ NoBroadcastStep
  /\ UNCHANGED <<dbVars, useInMemory, redis, inMemoryQueue, apiKey, started,
                 running, werror, processingEvents, wexisting, gateVars, handlerVars,
                 resetVars>>
  /\ Observe
  /\ UNCHANGED outsideVars

\* processJob begins: the processingEvents guard, then the call of
\* db.getSummaryByEventId.  A return leads to sleep(2000) and the next pop.
ProcessJobBegin ==
  /\ wpc = "popped"
  /\ IF wjob.eventId \in processingEvents
       THEN /\ wpc' = "idle"
            /\ wjob' = NoJob
            /\ UNCHANGED wexisting
       ELSE /\ wexisting' = getSummaryByEventId(summaries, wjob.eventId)
            /\ wpc' = "checked"
            /\ UNCHANGED wjob
  /\ NoBroadcastStep
  /\ UNCHANGED <<dbVars, queueVars, apiKey, started, running, werror, processingEvents,
                 gateVars, handlerVars, resetVars>>
  /\ Observe
  /\ UNCHANGED outsideVars

\* A processJob without its `if (existing) return`: the completion API is
\* called whether or not a summary exists.
ProcessJobCallNoSkip ==
  /\ wpc = "checked"
  /\ processingEvents' = processingEvents \cup {wjob.eventId}
  /\ wpc' = "generating"
  /\ wexisting' = NoSummary
  /\ NoBroadcastStep
  /\ called' = called \cup {wjob.eventId}
  /\ resetAlone' = (resetAlone /\ rpc = "idle")
  /\ UNCHANGED <<dbVars, queueVars, apiKey, started, running, werror, wjob,
                 gateVars, handlerVars, resetVars, resets, afterReset>>
  /\ UNCHANGED outsideVars

\* After the await: skip when a summary exists, else mark the event as
\* processing and call the completion API.
ProcessJobCall ==
  /\ wpc = "checked"
  /\ IF wexisting # NoSummary
       THEN /\ wpc' = "idle"
            /\ wjob' = NoJob
            /\ UNCHANGED processingEvents
       ELSE /\ processingEvents' = processingEvents \cup {wjob.eventId}
            /\ wpc' = "generating"
            /\ UNCHANGED wjob
  /\ wexisting' = NoSummary
  /\ NoBroadcastStep
  /\ called' = IF wexisting = NoSummary
                 THEN called \cup {wjob.eventId} ELSE called
  /\ resetAlone' = (resetAlone /\ rpc = "idle")
  /\ UNCHANGED <<dbVars, queueVars, apiKey, started, running, werror, gateVars,
                 handlerVars, resetVars, resets, afterReset>>
  /\ UNCHANGED outsideVars

\* A success path that goes to the callback without db.storeSummary.
CompletionOkWithoutStore(classification) ==
  /\ wpc = "generating"
  /\ wexisting' = classification
  /\ wpc' = "stored"
  /\ NoBroadcastStep
  /\ UNCHANGED <<dbVars, queueVars, apiKey, started, running, werror,
                 processingEvents, wjob, gateVars, handlerVars, resetVars>>
  /\ Observe
  /\ UNCHANGED outsideVars

\* The completion call returned text that parses: db.storeSummary is called.
CompletionOk(classification) ==
  /\ wpc = "generating"
  /\ summaries' = storeSummary(summaries, wjob.eventId, classification)
  /\ wexisting' = classification
  /\ wpc' = "stored"
  /\ NoBroadcastStep
  /\ UNCHANGED <<events, normalCounter, dbResult, queueVars, apiKey, started,
                 running, werror, processingEvents, wjob, gateVars, handlerVars,
                 resetVars>>
  /\ Observe
  /\ UNCHANGED outsideVars

\* parseSummaryResponse's classification.
validClasses == {"ACTIVE_ATTACK", "POLICY_VIOLATION", "BENIGN_ANOMALY"}

\* parsed.classification left out of the reply.
Missing == "missing"

\* The classification field of a reply that parses: the canonical values, the
\* code-quality values, none, the empty string, a value of another case, an
\* unknown value, and the name of a property every object inherits.
RawClassifications ==
  validClasses \cup {"CRITICAL_ISSUE", "POOR_PRACTICE", "MINOR_CONCERN", Missing,
                     "", "active_attack", "UNKNOWN", "constructor"}

\* classificationMap[classification]: the table's own entries; for a name
\* inherited from Object.prototype the inherited value, which is truthy and
\* not a string of the vocabulary; undefined otherwise.
classificationMap(classification) ==
  CASE classification = "CRITICAL_ISSUE" -> "ACTIVE_ATTACK"
    [] classification = "POOR_PRACTICE" -> "POLICY_VIOLATION"
    [] classification = "MINOR_CONCERN" -> "BENIGN_ANOMALY"
    [] classification = "constructor" -> "inherited"
    [] OTHER -> "undefined"

\* A normalization without the final validClasses check.
parseClassificationUnchecked(raw) ==
  LET classification == IF raw \in {Missing, ""} THEN "POLICY_VIOLATION" ELSE raw
  IN  IF classificationMap(classification) # "undefined"
        THEN classificationMap(classification)
        ELSE classification

\* parseSummaryResponse: parsed.classification || 'POLICY_VIOLATION', the
\* mapping table, then the validClasses check.
parseClassification(raw) ==
  LET classification == IF raw \in {Missing, ""} THEN "POLICY_VIOLATION" ELSE raw
      mapped == IF classificationMap(classification) # "undefined"
                  THEN classificationMap(classification)
                  ELSE classification
  IN  IF mapped \in validClasses THEN mapped ELSE "POLICY_VIOLATION"

\* The completion call returned a reply that parses, with classification
\* field raw: parseSummaryResponse, then db.storeSummary is called.
CompletionReplies(raw) ==
  /\ wpc = "generating"
  /\ wreply' = raw
  /\ summaries' = storeSummary(summaries, wjob.eventId, parseClassification(raw))
  /\ wexisting' = parseClassification(raw)
  /\ wpc' = "stored"
  /\ NoBroadcastStep
  /\ UNCHANGED <<events, normalCounter, dbResult, queueVars, apiKey, started,
                 running, werror, processingEvents, wjob, gateVars, handlerVars,
                 resetVars>>
  /\ Observe
  /\ UNCHANGED <<besideVars, historyVars>>

\* A success path without the finally block: the id stays in
\* processingEvents.
ProcessJobDoneKeepsProcessing ==
  /\ wpc = "stored"
  /\ pendingEvents' = pendingEvents \ {wjob.eventId}
  /\ broadcast("summary", wjob.eventId, wexisting)
  /\ wpc' = "idle"
  /\ wjob' = NoJob
  /\ wexisting' = NoSummary
  /\ UNCHANGED <<dbVars, queueVars, apiKey, started, running, werror,
                 processingEvents, API_BUDGET, MAX_SUMMARIES_PER_CATEGORY,
                 handlerVars, resetVars>>
  /\ Observe
  /\ announced' = [announced EXCEPT ![wjob.eventId] = IF @ < 2 THEN @ + 1 ELSE 2]
  /\ UNCHANGED <<besideVars, replyVars>>

\* After await db.storeSummary: onSummaryCreated (broadcastSummary: the id
\* leaves PendingSet, the summary is broadcast), then the finally block.
ProcessJobDone ==
  /\ wpc = "stored"
  /\ pendingEvents' = pendingEvents \ {wjob.eventId}
  /\ broadcast("summary", wjob.eventId, wexisting)
  /\ processingEvents' = processingEvents \ {wjob.eventId}
  /\ wpc' = "idle"
  /\ wjob' = NoJob
  /\ wexisting' = NoSummary
  /\ UNCHANGED <<dbVars, queueVars, apiKey, started, running, werror,
                 API_BUDGET, MAX_SUMMARIES_PER_CATEGORY, handlerVars,
                 resetVars>>
  /\ Observe
  /\ announced' = [announced EXCEPT ![wjob.eventId] = IF @ < 2 THEN @ + 1 ELSE 2]
  /\ UNCHANGED <<besideVars, replyVars>>

\* A terminal failure whose finally block is left out: the id stays in
\* processingEvents.
CompletionFailsKeepsProcessing(error) ==
  /\ wpc = "generating"
  /\ IF is429(error)
       THEN /\ push(wjob)
            /\ wpc' = "requeued"
            /\ werror' = error
            /\ NoBroadcastStep
            /\ UNCHANGED wjob
       ELSE /\ broadcast("error", wjob.eventId, error)
            /\ wpc' = "idle"
            /\ wjob' = NoJob
            /\ UNCHANGED <<queueVars, werror>>
  /\ UNCHANGED <<dbVars, apiKey, started, running, wexisting, gateVars,
                 handlerVars, resetVars, processingEvents>>
  /\ Observe
  /\ UNCHANGED outsideVars

\* The completion call or the parse threw.  A rate-limit indication pushes
\* the job back and sleeps 60 s; anything else goes to onError
\* (broadcastError) and the finally block.
CompletionFails(error) ==
  /\ wpc = "generating"
  /\ IF is429(error)
       THEN /\ push(wjob)
            /\ wpc' = "requeued"
            /\ werror' = error
            /\ NoBroadcastStep
            /\ UNCHANGED <<processingEvents, wjob>>
       ELSE /\ broadcast("error", wjob.eventId, error)
            /\ processingEvents' = processingEvents \ {wjob.eventId}
            /\ wpc' = "idle"
            /\ wjob' = NoJob
            /\ UNCHANGED <<queueVars, werror>>
  /\ UNCHANGED <<dbVars, apiKey, started, running, wexisting, gateVars,
                 handlerVars, resetVars>>
  /\ Observe
  /\ UNCHANGED outsideVars

\* The completion call failed with a rate-limit indication and the catch
\* block's queue.push rejects: the finally block runs, the rejection reaches
\* processLoop's catch, which sleeps 1 s.  The job is in no queue any more and
\* onError was not called.
RequeuePushThrows(error) ==
  /\ wpc = "generating"
  /\ is429(error)
  /\ ~useInMemory
  /\ processingEvents' = processingEvents \ {wjob.eventId}
  /\ wpc' = "loopCatch"
  /\ wjob' = NoJob
  /\ NoBroadcastStep
  /\ UNCHANGED <<dbVars, queueVars, apiKey, started, running, wexisting,
                 werror, gateVars, handlerVars, resetVars>>
  /\ Observe
  /\ UNCHANGED outsideVars

\* processLoop's catch ends its sleep(1000): the loop goes on to the next pop.
WorkerCatchDone ==
  /\ wpc = "loopCatch"
  /\ wpc' = "idle"
  /\ NoBroadcastStep
  /\ UNCHANGED <<dbVars, queueVars, apiKey, started, running, processingEvents,
                 wjob, wexisting, werror, gateVars, handlerVars, resetVars>>
  /\ Observe
  /\ UNCHANGED outsideVars

\* After await queue.push and sleep(60000): the finally block.
RequeueDone ==
  /\ wpc = "requeued"
  /\ processingEvents' = processingEvents \ {wjob.eventId}
  /\ wpc' = "idle"
  /\ wjob' = NoJob
  /\ werror' = NoError
  /\ NoBroadcastStep
  /\ UNCHANGED <<dbVars, queueVars, apiKey, started, running, wexisting,
                 gateVars, handlerVars, resetVars>>
  /\ Observe
  /\ UNCHANGED outsideVars

\* ------------------------------------------------ direct Database calls
\* db.storeSummary(summary), as the tests of database.test.ts call it.
DbStoreSummary(id, content) ==
  /\ summaries' = storeSummary(summaries, id, content)
  /\ dbResult' = [op |-> "storeSummary", event_id |-> id, content |-> content,
                  wasInserted |-> wasInserted(summaries, id)]
  /\ UNCHANGED <<events, normalCounter, queueVars, apiKey, started, workerVars,
                 gateVars, sseClients, handlerVars, resetVars, broadcastMsg>>
  /\ Observe
  /\ UNCHANGED outsideVars

\* db.storeEvent(event, score, codeQualityScore, category, repoContext)
DbStoreEvent(id, category) ==
  /\ events' = storeEvent(events, id, category)
  /\ dbResult' = [op |-> "storeEvent", event_id |-> id, content |-> category,
                  wasInserted |-> TRUE]
  /\ UNCHANGED <<summaries, normalCounter, queueVars, apiKey, started,
                 workerVars, gateVars, sseClients, handlerVars, resetVars,
                 broadcastMsg>>
  /\ Observe
  /\ UNCHANGED outsideVars

\* db.incrementNormalCounter()
DbIncrementNormalCounter ==
  /\ normalCounter < MaxNormalCount
  /\ normalCounter' = normalCounter + 1
  /\ dbResult' = [NoResult EXCEPT !.op = "incrementNormalCounter"]
  /\ UNCHANGED <<events, summaries, queueVars, apiKey, started, workerVars,
                 gateVars, sseClients, handlerVars, resetVars, broadcastMsg>>
  /\ Observe
  /\ UNCHANGED outsideVars

\* db.clearAll()
DbClearAll ==
  /\ clearAll
  /\ dbResult' = [NoResult EXCEPT !.op = "clearAll"]
  /\ UNCHANGED <<queueVars, apiKey, started, workerVars, gateVars, sseClients,
                 handlerVars, resetVars, broadcastMsg>>
  /\ Observe
  /\ UNCHANGED outsideVars

\* --------------------------------------------------- direct Queue calls
queueFrame == UNCHANGED <<dbVars, workerVars, gateVars, handlerVars, resetVars,
                          obsVars, apiKey, sseClients, broadcastMsg, pollerVars,
                          contextVars, listingVars, replyVars, historyVars>>

QueueJobs == {[eventId |-> id, category |-> "security"] : id \in EventIds}

PushedJobs == [i \in 1..Len(pushedLog) |-> pushedLog[i].job]

\* Queue.push(job) by a caller that records it.
QueuePush(job) ==
  /\ started
  /\ Len(pushedLog) < MaxPushes
  /\ push(job)
  /\ pushedLog' = Append(pushedLog, [job |-> job, requeued |-> FALSE])
  /\ UNCHANGED <<poppedLog, started, clientVars>>
  /\ queueFrame

\* Queue.pop() returns a job: inMemoryQueue.shift(), or BLPOP on a live client.
QueuePop ==
  /\ started
  /\ QueueItems # <<>>
  /\ IF useInMemory
       THEN /\ inMemoryQueue' = Tail(inMemoryQueue)
            /\ UNCHANGED redisList
       ELSE /\ redis = "connected"
            /\ client \in {"none", "connected"}
            /\ redisList' = Tail(redisList)
            /\ UNCHANGED inMemoryQueue
  /\ poppedLog' = Append(poppedLog, Head(QueueItems))
  /\ UNCHANGED <<useInMemory, redis, pushedLog, started, clientVars>>
  /\ queueFrame

\* The caller pushes the job it popped last once more, as processJob does
\* after a rate-limit failure.
QueueRequeue ==
  /\ started
  /\ poppedLog # <<>>
  /\ Len(pushedLog) < MaxPushes
  /\ push(poppedLog[Len(poppedLog)])
  /\ pushedLog' = Append(pushedLog, [job |-> poppedLog[Len(poppedLog)],
                                     requeued |-> TRUE])
  /\ UNCHANGED <<poppedLog, started, clientVars>>
  /\ queueFrame

\* Queue.init with its IORedis client: REDIS_URL unset; connect() resolves;
\* connect() rejects on the first close, the client going on to reconnect.
QueueInit(outcome) ==
  /\ ~started
  /\ started' = TRUE
  /\ times' = IF outcome = "connect_fails" THEN 1 ELSE 0
  /\ IF outcome = "no_url"
       THEN /\ useInMemory' = TRUE
            /\ redis' = "null"
            /\ client' = "none"
       ELSE IF outcome = "connect_ok"
       THEN /\ useInMemory' = FALSE
            /\ redis' = "connected"
            /\ client' = "connected"
       ELSE /\ useInMemory' = TRUE
            /\ redis' = "null"
            /\ client' = "retrying"
  /\ UNCHANGED <<inMemoryQueue, redisList, callerVars>>
  /\ queueFrame

\* The client emits 'connect' after a reconnection: the handler of Queue.init.
RedisConnect ==
  /\ client = "retrying"
  /\ client' = "connected"
  /\ times' = 0
  /\ useInMemory' = FALSE
  /\ UNCHANGED <<redis, inMemoryQueue, redisList, started, callerVars>>
  /\ queueFrame

\* The connection closes: retryStrategy(1) schedules a reconnection.
RedisClose ==
  /\ client = "connected"
  /\ client' = "retrying"
  /\ times' = 1
  /\ UNCHANGED <<queueVars, started, callerVars>>
  /\ queueFrame

\* A reconnection fails: retryStrategy(times + 1) gives up beyond the budget.
RedisRetryFails ==
  /\ client = "retrying"
  /\ IF times + 1 > RetryBudget
       THEN /\ useInMemory' = TRUE
            /\ client' = "ended"
            /\ UNCHANGED times
       ELSE /\ times' = times + 1
            /\ UNCHANGED <<useInMemory, client>>
  /\ UNCHANGED <<redis, inMemoryQueue, redisList, started, callerVars>>
  /\ queueFrame

\* ------------------------------------------------------ RepoContextFetcher
contextFrame == UNCHANGED <<dbVars, queueVars, workerVars, gateVars, handlerVars,
                            resetVars, obsVars, started, apiKey, sseClients,
                            broadcastMsg, pollerVars, clientVars, callerVars,
                            listingVars, replyVars, historyVars>>

\* A capacity check that always passes.
hasGraphQLCapacityAlways(minPoints) == TRUE

hasGraphQLCapacity(minPoints) ==
  IF lastGraphQLRateLimit = NoRateLimit THEN TRUE
  ELSE IF now \div 1000 >= lastGraphQLRateLimit.reset THEN TRUE
  ELSE lastGraphQLRateLimit.remaining >= minPoints

\* A cache whose entries never expire.
cachedForever(entry) == entry # NoEntry

\* cached && Date.now() - cached.timestamp < CACHE_TTL
cachedFresh(entry) == entry # NoEntry /\ now - entry.timestamp < CACHE_TTL

\* const [owner, name] = repoFullName.split('/'); both must be non-empty
validName(repo) == repo # "noslash"

\* fetchRepoContext(repo) up to its first await or its return.
FetchRepoContext(repo) ==
  /\ fpc = "idle"
  /\ IF cachedFresh(cache[repo])
       THEN /\ fcall' = [op |-> "fetchRepoContext", at |-> now, repo |-> repo,
                         result |-> cache[repo].data]
            /\ UNCHANGED <<fpc, frepo>>
     ELSE IF ~hasGraphQLCapacity(MinPoints) \/ ~validName(repo)
       THEN /\ fcall' = [op |-> "fetchRepoContext", at |-> now, repo |-> repo,
                         result |-> Absent]
            /\ UNCHANGED <<fpc, frepo>>
       ELSE /\ fpc' = "graphql"
            /\ frepo' = repo
            /\ UNCHANGED fcall
  /\ UNCHANGED <<cache, lastGraphQLRateLimit, now, clockSteps>>
  /\ contextFrame

\* fetchGraphQLData settles; a response with x-ratelimit-limit records the
\* rate limit first.  Without repository data fetchRepoContext returns null.
GraphQLResponds(outcome, rateLimit) ==
  /\ fpc = "graphql"
  /\ lastGraphQLRateLimit' =
       IF outcome \in {"network_error", "timeout"} \/ rateLimit = NoRateLimit
         THEN lastGraphQLRateLimit ELSE rateLimit
  /\ IF outcome = "repository"
       THEN /\ fpc' = "checkRuns"
            /\ UNCHANGED <<frepo, fcall>>
       ELSE /\ fpc' = "idle"
            /\ frepo' = "none"
            /\ fcall' = [op |-> "fetchRepoContext", at |-> now, repo |-> frepo,
                         result |-> Absent]
  /\ UNCHANGED <<cache, now, clockSteps>>
  /\ contextFrame

\* fetchCheckRuns resolves (with runs or null): the context is built, cached
\* with Date.now() and returned.
CheckRunsResponds(runs) ==
  /\ fpc = "checkRuns"
  /\ LET context == [repo |-> frepo, fetchedAt |-> now, checks |-> runs] IN
       /\ cache' = [cache EXCEPT ![frepo] = [data |-> context, timestamp |-> now]]
       /\ fcall' = [op |-> "fetchRepoContext", at |-> now, repo |-> frepo,
                         result |-> context]
  /\ fpc' = "idle"
  /\ frepo' = "none"
  /\ UNCHANGED <<lastGraphQLRateLimit, now, clockSteps>>
  /\ contextFrame

\* executeGraphQLQuery (PR and commit context) records the rate limit too.
OtherGraphQLResponds(rateLimit) ==
  /\ lastGraphQLRateLimit' = rateLimit
  /\ UNCHANGED <<cache, now, clockSteps, fpc, frepo, fcall>>
  /\ contextFrame

clearOldCache ==
  /\ cache' = [r \in RepoNames |->
                 IF cache[r] # NoEntry /\ now - cache[r].timestamp > CACHE_TTL
                   THEN NoEntry ELSE cache[r]]
  /\ fcall' = [op |-> "clearOldCache", at |-> now, repo |-> "none",
               result |-> Absent]
  /\ UNCHANGED <<lastGraphQLRateLimit, now, clockSteps, fpc, frepo>>
  /\ contextFrame

\* Time passes.
ClockAdvance(d) ==
  /\ clockSteps < MaxClockSteps
  /\ clockSteps' = clockSteps + 1
  /\ now' = now + d
  /\ UNCHANGED <<cache, lastGraphQLRateLimit, fpc, frepo, fcall>>
  /\ contextFrame

\* ------------------------------------------------------ GitHubEventsPoller
Range(seq) == {seq[i] : i \in 1..Len(seq)}

Min(a, b) == IF a <= b THEN a ELSE b

Max(a, b) == IF a >= b THEN a ELSE b

\* A variant that applies the jitter but not the multiplier.
increaseBackoffNoMultiplier(current, jitter) ==
  Min((current * jitter) \div 100, maxBackoff)

\* increaseBackoff: nextBackoff * jitter, capped at maxBackoff (whole ms).
increaseBackoff(current, jitter) ==
  Min((current * backoffMultiplier * jitter) \div 100, maxBackoff)

resetBackoff == initialBackoff

\* A variant that keeps every event of the response.
filterNothing(data, seen) == data

\* events.filter((event) => !this.seenEventIds.has(event.id))
filterNew(data, seen) == SelectSeq(data, LAMBDA id : id \notin Range(seen))

\* Set.add for each id in turn: insertion order kept, a present id is left.
RECURSIVE addAll(_, _)
addAll(seen, ids) ==
  IF ids = <<>> THEN seen
  ELSE addAll(IF Head(ids) \in Range(seen) THEN seen ELSE Append(seen, Head(ids)),
              Tail(ids))

\* A variant of the trim that keeps the oldest ids.
trimOldest(seen) ==
  IF Len(seen) > SeenCeiling THEN SubSeq(seen, 1, SeenCeiling) ELSE seen

\* new Set(Array.from(seenEventIds).slice(-1000)) once the size exceeds 1000
trim(seen) ==
  IF Len(seen) > SeenCeiling
  THEN SubSeq(seen, Len(seen) - SeenCeiling + 1, Len(seen))
  ELSE seen

\* What the scorers answer: a verdict, or no result (the call failed, or the
\* event type is not scored for code quality).
SecurityVerdicts == {"absent", "anomalous", "not_anomalous"}
QualityVerdicts == {"absent", "good_practice", "not_good_practice"}

\* How the enrichment of one event ends.
EnrichOutcomes == {"context", "no_fetcher", "budget_skip", "network_error",
                   "api_error", "timeout"}

ScoringInputs ==
  [enrich : EnrichOutcomes, security : SecurityVerdicts, quality : QualityVerdicts]

\* Without enrichment or scorers: no context, no verdict.
NoScoring == [enrich |-> "no_fetcher", security |-> "absent", quality |-> "absent"]

\* repoContext: the fetcher's context, or null when there is no fetcher or
\* fetchRepoContext returned null.
enrich(outcome) == IF outcome = "context" THEN "context" ELSE "absent"

\* A categorization that lets the security verdict decide alone when it fires.
categorizeSecurityFirst(security, quality) ==
  IF security = "anomalous" THEN "security"
  ELSE IF quality = "not_good_practice" THEN "code_quality"
  ELSE "normal"

\* isSecurity = securityScore && securityScore.is_anomalous
\* isCodeQuality = codeQualityScore && !codeQualityScore.is_good_practice
categorize(security, quality) ==
  LET isSecurity == security # "absent" /\ security = "anomalous"
      isCodeQuality == quality # "absent" /\ quality # "good_practice"
  IN  IF isSecurity /\ isCodeQuality THEN "both"
      ELSE IF isSecurity THEN "security"
      ELSE IF isCodeQuality THEN "code_quality"
      ELSE "normal"

\* k ids the events API has not issued before.
Fresh(k) == [i \in 1..k |-> nextId + i - 1]

pollerFrame == UNCHANGED <<dbVars, queueVars, workerVars, gateVars, handlerVars,
                           resetVars, obsVars, started, apiKey, sseClients,
                           broadcastMsg, clientVars, callerVars, contextVars,
                           listingVars, replyVars, historyVars>>

\* pollCount++ and the call of makeRequest.
PollRequest ==
  /\ ppc = "idle"
  /\ ppc' = "requested"
  /\ pollStatus' = "none"
  /\ pollData' = <<>>
  /\ newEvents' = <<>>
  /\ forwarded' = <<>>
  /\ scored' = <<>>
  /\ UNCHANGED <<currentBackoff, waitTime, seenEventIds, nextId>>
  /\ pollerFrame

\* makeRequest resolves with a status, a retry-after header and a body.
PollResponds(status, retryAfter, data, jitter) ==
  /\ ppc = "requested"
  /\ \A i \in 1..Len(data) : data[i] <= MaxIssued
  /\ pollStatus' = status
  /\ pollData' = data
  /\ nextId' = IF data = <<>> THEN nextId
               ELSE Max(nextId, 1 + data[Len(data)])
  /\ forwarded' = <<>>
  /\ UNCHANGED scored
  /\ IF status = "304"
     THEN /\ currentBackoff' = resetBackoff
          /\ ppc' = "sleeping"
          /\ UNCHANGED <<waitTime, seenEventIds, newEvents>>
     ELSE IF status = "200"
     THEN /\ newEvents' = filterNew(data, seenEventIds)
          /\ UNCHANGED waitTime
          /\ IF Len(newEvents') > 0
             THEN /\ seenEventIds' = addAll(seenEventIds, newEvents')
                  /\ ppc' = "scoring"
                  /\ UNCHANGED currentBackoff
             ELSE /\ currentBackoff' = resetBackoff
                  /\ ppc' = "sleeping"
                  /\ UNCHANGED seenEventIds
     ELSE IF status \in {"403", "429"}
     THEN /\ IF retryAfter # NoRetryAfter
             THEN /\ waitTime' = (retryAfter * 1000 * jitter.retry) \div 100
                  /\ UNCHANGED currentBackoff
             ELSE /\ currentBackoff' = increaseBackoff(currentBackoff, jitter.backoff)
                  /\ waitTime' = currentBackoff'
          /\ ppc' = "backingOff"
          /\ UNCHANGED <<seenEventIds, newEvents>>
     ELSE /\ currentBackoff' = increaseBackoff(currentBackoff, jitter.backoff)
          /\ ppc' = "sleeping"
          /\ UNCHANGED <<waitTime, seenEventIds, newEvents>>
  /\ pollerFrame

\* makeRequest rejects (network error, unparsable body): the catch block.
PollRequestFails(jitter) ==
  /\ ppc = "requested"
  /\ pollStatus' = "error"
  /\ currentBackoff' = increaseBackoff(currentBackoff, jitter)
  /\ waitTime' = currentBackoff'
  /\ ppc' = "backingOff"
  /\ UNCHANGED <<pollData, seenEventIds, newEvents, forwarded, scored, nextId>>
  /\ pollerFrame

\* A scoring step in which an enrichment that gave no context rejects, so the
\* cycle ends in the catch block instead of forwarding.
PollScoredEnrichmentRejects(inputs) ==
  /\ ppc = "scoring"
  /\ IF \E i \in 1..Len(newEvents) : enrich(inputs[i].enrich) = "absent"
       THEN /\ pollStatus' = "error"
            /\ currentBackoff' = increaseBackoff(currentBackoff, 100)
            /\ waitTime' = currentBackoff'
            /\ ppc' = "backingOff"
            /\ UNCHANGED <<forwarded, scored>>
       ELSE /\ scored' = [i \in 1..Len(newEvents) |->
                           [id |-> newEvents[i],
                            repoContext |-> "context",
                            security |-> inputs[i].security,
                            quality |-> inputs[i].quality,
                            category |-> categorize(inputs[i].security,
                                                    inputs[i].quality)]]
            /\ forwarded' = newEvents
            /\ ppc' = "sending"
            /\ UNCHANGED <<currentBackoff, waitTime, pollStatus>>
  /\ UNCHANGED <<pollData, seenEventIds, newEvents, nextId>>
  /\ pollerFrame

\* Promise.all(scoringPromises) resolves; sendToBackend is called for each.
\* inputs[i] is what the enrichment and the two scorers gave for newEvents[i].
\* fetchRepoContext resolves null on every failure and skip, the scorers
\* resolve null on theirs, so no input makes this step reject.
PollScored(inputs) ==
  /\ ppc = "scoring"
  /\ scored' = [i \in 1..Len(newEvents) |->
                 [id |-> newEvents[i],
                  repoContext |-> enrich(inputs[i].enrich),
                  security |-> inputs[i].security,
                  quality |-> inputs[i].quality,
                  category |-> categorize(inputs[i].security, inputs[i].quality)]]
  /\ forwarded' = newEvents
  /\ ppc' = "sending"
  /\ UNCHANGED <<currentBackoff, waitTime, pollStatus, pollData, seenEventIds,
                 newEvents, nextId>>
  /\ pollerFrame

\* Promise.all(backendPromises) resolves: trim, resetBackoff, sleep(pollInterval).
PollSent ==
  /\ ppc = "sending"
  /\ seenEventIds' = trim(seenEventIds)
  /\ currentBackoff' = resetBackoff
  /\ ppc' = "sleeping"
  /\ UNCHANGED <<waitTime, pollStatus, pollData, newEvents, forwarded, scored,
                 nextId>>
  /\ pollerFrame

\* The argument of the sleep in progress: waitTime or currentBackoff after a
\* rate limit or an error, pollInterval at the end of any other cycle.
SleepTime ==
  IF ppc = "backingOff" THEN waitTime
  ELSE IF ppc = "sleeping" THEN pollInterval
  ELSE 0

\* A sleep whose timer never fires.
PollWakeNever ==
  /\ ppc \in {"sleeping", "backingOff"}
  /\ UNCHANGED vars

\* The sleep at the end of the cycle is over.
PollWake ==
  /\ ppc \in {"sleeping", "backingOff"}
  /\ ppc' = "idle"
  /\ waitTime' = 0
  /\ UNCHANGED <<currentBackoff, pollStatus, pollData, seenEventIds, newEvents,
                 forwarded, scored, nextId>>
  /\ pollerFrame

\* ----------------------------------------------------------- specifications
\* The poller posts an event id it has not seen before (its SeenSet), so an
\* id is posted while no event of that id is stored.
Feed(ids, categories) ==
  \E id \in ids, c \in categories :
    /\ getEvent(events, id) = NoEvent
    /\ InternalEvent(id, c)

Stream ==
  \/ \E c \in Clients : StreamConnect(c)
  \/ \E c \in Clients : StreamClose(c)

Streams(clients) ==
  \/ \E c \in clients : StreamConnect(c)
  \/ \E c \in clients : StreamClose(c)

Requests(handlers, ids) ==
  \/ \E h \in handlers, id \in ids : SummaryRequest(h, id)
  \/ \E h \in handlers : AfterGetSummary(h)
  \/ \E h \in handlers : AfterGetEvent(h)
  \/ \E h \in handlers : AfterPush(h)

Worker(classifications) ==
  \/ WorkerPop
  \/ WorkerPopTimeout
  \/ WorkerBlpop
  \/ ProcessJobBegin
  \/ ProcessJobCall
  \/ \E c \in classifications : CompletionOk(c)
  \/ ProcessJobDone
  \/ \E e \in CompletionErrors : CompletionFails(e)
  \/ RequeueDone

Reset ==
  \/ ResetStart
  \/ ResetQueueClear
  \/ ResetRedisDel
  \/ ResetFinish

\* The pipeline with two concurrent summary requests over two security
\* events.
Next ==
  \/ Start
  \/ Stream
  \/ Feed(EventIds, {"security"})
  \/ Requests(Handlers, EventIds)
  \/ Worker(Classifications)

Spec == Init /\ [][Next]_vars

\* The pipeline with the reset operation: one event, fed as code_quality or
\* normal, and one summary request at a time.
NextReset ==
  \/ Start
  \/ Stream
  \/ Feed({"e1"}, {"code_quality", "normal"})
  \/ Requests({"h1"}, {"e1"})
  \/ Worker(Classifications)
  \/ Reset

SpecReset == Init /\ [][NextReset]_vars

\* The pipeline over a shared store that can refuse a push: one event, one
\* summary request at a time.
NextOutage ==
  \/ Start
  \/ Stream
  \/ Feed({"e1"}, {"security"})
  \/ Requests({"h1"}, {"e1"})
  \/ AfterGetEventPushThrows("h1")
  \/ Worker(Classifications)
  \/ \E e \in CompletionErrors : RequeuePushThrows(e)
  \/ WorkerCatchDone

SpecOutage == Init /\ [][NextOutage]_vars

\* The pipeline with the replies of the completion service taken by their
\* classification field: one request handler, two events.
NextParse ==
  \/ Start
  \/ Feed(EventIds, {"security"})
  \/ Requests({"h1"}, EventIds)
  \/ WorkerPop
  \/ WorkerPopTimeout
  \/ WorkerBlpop
  \/ ProcessJobBegin
  \/ ProcessJobCall
  \/ \E raw \in RawClassifications : CompletionReplies(raw)
  \/ ProcessJobDone

SpecParse == Init /\ [][NextParse]_vars

\* The pipeline over one event of any category but code_quality the poller
\* posts, 'both' included, and one code_quality event, with one summary
\* request at a time.
NextAxis ==
  \/ Start
  \/ Feed({"e1"}, {"security", "normal", "both"})
  \/ Feed({"e2"}, {"code_quality"})
  \/ Requests({"h1"}, EventIds)
  \/ Worker(Classifications)

SpecAxis == Init /\ [][NextAxis]_vars

\* The worker's steps when the completion service never answers with a rate
\* limit and no parse error mentions one.
WorkerUnlimited ==
  \/ WorkerPop
  \/ WorkerPopTimeout
  \/ WorkerBlpop
  \/ ProcessJobBegin
  \/ ProcessJobCall
  \/ \E c \in Classifications : CompletionOk(c)
  \/ ProcessJobDone
  \/ \E e \in {x \in CompletionErrors : ~is429(x)} : CompletionFails(e)

\* One event and a requester that polls for its summary.
NextLive ==
  \/ Start
  \/ Feed({"e1"}, {"security"})
  \/ Requests({"h1"}, {"e1"})
  \/ WorkerUnlimited

\* The worker's loop keeps running: every timer fires, every call it awaits
\* returns; each request that was received is answered.
SpecLive ==
  /\ Init
  /\ [][NextLive]_vars
  /\ WF_vars(WorkerUnlimited)
  /\ WF_vars(AfterGetSummary("h1") \/ AfterGetEvent("h1") \/ AfterPush("h1"))

\* ------------------------------------------------- Database.getAllEvents
listingFrame == UNCHANGED <<queueVars, workerVars, gateVars, handlerVars,
                            resetVars, obsVars, started, apiKey, sseClients,
                            broadcastMsg, pollerVars, clientVars, callerVars,
                            contextVars, replyVars, historyVars>>

\* The created_at values events are stored with: two instants in one format,
\* so that the TEXT comparison of the column is the order of the instants.
Timestamps == {1, 2}

\* The event ids in the order of the TEXT comparison of the id column.
idOrder == <<"e1", "e2">>

idRank(id) == CHOOSE i \in 1..Len(idOrder) : idOrder[i] = id

\* options.limit: a limit below the number of rows, and the default.
Limits == {1, 100}

\* options.category left out.
NoCategory == "none"

\* ORDER BY created_at ASC alone: rows of equal created_at may come in either
\* order.
precedesByCreatedAt(at, a, b) == at[a] <= at[b]

\* ORDER BY created_at ASC, id ASC: whether row a may come before row b.
precedes(at, a, b) ==
  \/ at[a] < at[b]
  \/ at[a] = at[b] /\ idRank(a) <= idRank(b)

\* SELECT * FROM events [WHERE category = ?]
selected(tbl, category) ==
  {id \in EventIds : /\ tbl[id] # NoEvent
                     /\ category # NoCategory => tbl[id] = category}

\* The sequences the ORDER BY clause allows for the selected rows.
orderings(tbl, at, category) ==
  LET ids == selected(tbl, category)
      n == Cardinality(ids)
  IN  {s \in [1..n -> ids] :
         /\ \A i, j \in 1..n : i # j => s[i] # s[j]
         /\ \A i, j \in 1..n : i < j => precedes(at, s[i], s[j])}

\* ... LIMIT ?: what getAllEvents may return (the rows named by their ids).
getAllEvents(tbl, at, limit, category) ==
  {SubSeq(s, 1, Min(limit, Len(s))) : s \in orderings(tbl, at, category)}

\* db.storeEvent(event, ...) with the event's created_at: INSERT OR REPLACE.
DbStoreEventAt(id, category, t) ==
  /\ events' = storeEvent(events, id, category)
  /\ createdAt' = [createdAt EXCEPT ![id] = t]
  /\ dbResult' = [op |-> "storeEvent", event_id |-> id, content |-> category,
                  wasInserted |-> TRUE]
  /\ listed' = <<>>
  /\ UNCHANGED <<summaries, normalCounter>>
  /\ listingFrame

\* db.getAllEvents({limit, category})
DbGetAllEvents(limit, category) ==
  /\ \E rows \in getAllEvents(events, createdAt, limit, category) :
       listed' = SubSeq(<<[limit |-> limit, category |-> category,
                          rows |-> rows]>> \o listed, 1, Min(2, Len(listed) + 1))
  /\ UNCHANGED <<dbVars, createdAt>>
  /\ listingFrame

\* The events table written and listed by direct calls.
NextEvents ==
  \/ \E id \in EventIds, c \in Categories, t \in Timestamps :
       DbStoreEventAt(id, c, t)
  \/ \E limit \in Limits, c \in Categories \cup {NoCategory} :
       DbGetAllEvents(limit, c)

SpecEvents == Init /\ [][NextEvents]_vars

\* The Database class on its own.
NextDb ==
  \/ \E id \in EventIds, c \in Classifications : DbStoreSummary(id, c)
  \/ \E id \in EventIds, c \in Categories : DbStoreEvent(id, c)
  \/ DbIncrementNormalCounter
  \/ DbClearAll

SpecDb == Init /\ [][NextDb]_vars

\* The poller against every status, with a body of no event or of event 1.
NextBackoff ==
  \/ PollRequest
  \/ \E status \in Statuses, retryAfter \in RetryAfters, data \in {<<>>, <<1>>},
        b \in BackoffJitters, r \in RetryJitters :
       PollResponds(status, retryAfter, data, [backoff |-> b, retry |-> r])
  \/ \E b \in BackoffJitters : PollRequestFails(b)
  \/ \E inputs \in [1..Len(newEvents) -> ScoringInputs] : PollScored(inputs)
  \/ PollSent
  \/ PollWake

SpecBackoff == Init /\ [][NextBackoff]_vars

\* The timer of a sleep fires, and the loop then calls makeRequest at once.
\* Nothing is assumed about the request being answered.
SpecBackoffFair ==
  SpecBackoff /\ WF_vars(PollWake) /\ WF_vars(PollRequest)

\* The bodies of a 200 response: a full page of fresh events, one fresh event,
\* and the oldest id still in seenEventIds followed by one fresh event.
Bodies ==
  {Fresh(PerPage), Fresh(1)} \cup
  (IF seenEventIds = <<>> THEN {} ELSE {<<Head(seenEventIds)>> \o Fresh(1)})

NextSeen ==
  \/ PollRequest
  \/ \E data \in Bodies :
       PollResponds("200", NoRetryAfter, data, [backoff |-> 100, retry |-> 100])
  \/ PollScored([i \in 1..Len(newEvents) |-> NoScoring])
  \/ PollSent
  \/ PollWake

SpecSeen == Init /\ [][NextSeen]_vars

\* Two subscribers and the event feed, whose every event is broadcast.
NextStream ==
  \/ Start
  \/ Streams(Subscribers)
  \/ Feed(EventIds, Categories)

SpecStream == Init /\ [][NextStream]_vars

\* Direct calls of the queue once start() has chosen its backend.
NextQueue ==
  \/ Start
  \/ \E job \in QueueJobs : QueuePush(job)
  \/ QueuePop
  \/ QueueRequeue

SpecQueue == Init /\ [][NextQueue]_vars

\* Queue.init, the events of its client, and direct calls of the queue.
NextFallback ==
  \/ \E outcome \in {"no_url", "connect_ok", "connect_fails"} : QueueInit(outcome)
  \/ RedisConnect
  \/ RedisClose
  \/ RedisRetryFails
  \/ \E job \in QueueJobs : QueuePush(job)
  \/ QueuePop

SpecFallback == Init /\ [][NextFallback]_vars

\* The fetcher under calls for three names, any outcome of its requests, the
\* poller's periodic clearOldCache, and the clock.
NextContext ==
  \/ \E repo \in RepoNames : FetchRepoContext(repo)
  \/ \E outcome \in GraphQLOutcomes, rateLimit \in RateLimits \cup {NoRateLimit} :
       GraphQLResponds(outcome, rateLimit)
  \/ CheckRunsResponds(TRUE)
  \/ \E rateLimit \in RateLimits : OtherGraphQLResponds(rateLimit)
  \/ clearOldCache
  \/ \E d \in ClockAdvances : ClockAdvance(d)

SpecContext == Init /\ [][NextContext]_vars

\* ------------------------------------------------------------------ queries
\* Queue.length(), counted per event id.
JobsQueued(id) ==
  Cardinality({i \in 1..Len(QueueItems) : QueueItems[i].eventId = id})

\* The worker holds a popped job until processJob returns; after a requeue
\* the job it held is the one in the queue again.
JobsHeld(id) ==
  IF wjob.eventId = id /\ wpc \in {"popped", "checked", "generating", "stored"}
    THEN 1 ELSE 0

JobsOutstanding(id) == JobsQueued(id) + JobsHeld(id)

HasSummary(id) == \E r \in summaries : r.event_id = id

\* --------------------------------------------------------------- properties
\* C1: the summaries table holds at most one row per event id, and the first
\* write wins: a storeSummary for an id that has a Summary returns
\* wasInserted = false and getSummaryByEventId still returns the first
\* writer's content; a storeSummary for an id without one inserts it.
C1_FirstWriterWins ==
  /\ [](\A r1, r2 \in summaries : r1.event_id = r2.event_id => r1 = r2)
  /\ [][dbResult'.op = "storeSummary" =>
          LET id == dbResult'.event_id
              before == getSummaryByEventId(summaries, id)
              after == getSummaryByEventId(summaries', id)
          IN  IF before # NoSummary
                THEN ~dbResult'.wasInserted /\ after = before
                ELSE dbResult'.wasInserted /\ after = dbResult'.content]_vars

\* A second storeSummary with other content was answered wasInserted = false
\* and the first content is still the one stored.
C1_Witness ==
  /\ dbResult.op = "storeSummary"
  /\ ~dbResult.wasInserted
  /\ getSummaryByEventId(summaries, dbResult.event_id) # NoSummary
  /\ getSummaryByEventId(summaries, dbResult.event_id) # dbResult.content

\* C2: under any interleaving of concurrent summary requests for one event
\* id, at most one job for that id is outstanding (in the queue or held by
\* the worker) at any time.
C2_AtMostOneJobOutstanding ==
  \A id \in EventIds : JobsOutstanding(id) <= 1

\* C3: a handler that finds no stored Summary and finds the id in PendingSet
\* answers 'generating' and leaves the Work Queue, the budget counters and
\* PendingSet as they were.
C3_PendingReturnsGenerating ==
  [][\A h \in Handlers :
       (/\ hpc[h] = "gotSummary"
        /\ hpc'[h] # "gotSummary"
        /\ hval[h] = NoSummary
        /\ hid[h] \in pendingEvents)
       => /\ hresp'[h] = [status |-> "generating", body |-> "none"]
          /\ hpc'[h] = "idle"
          /\ inMemoryQueue' = inMemoryQueue
          /\ redisList' = redisList
          /\ API_BUDGET' = API_BUDGET
          /\ pendingEvents' = pendingEvents]_vars

\* Two requests for one event were both answered 'generating' and the
\* counters were incremented once: one of them took the pending branch.
C3_Witness ==
  /\ \A h \in Handlers : hpc[h] = "idle" /\ hresp[h].status = "generating"
  /\ hid["h1"] = hid["h2"]
  /\ API_BUDGET["security"] + API_BUDGET["code_quality"] = 1
  /\ JobsOutstanding(hid["h1"]) = 1

\* C4: a handler that reaches the budget check with the counter of the
\* event's category at the ceiling answers budget-exhausted and leaves
\* PendingSet, the Work Queue and both counters as they were; no counter
\* ever exceeds the ceiling, so with ceiling N no (N+1)th job of a category
\* is enqueued.
C4_BudgetExhaustedRejects ==
  /\ [](\A c \in BudgetCategories :
          API_BUDGET[c] \in 0..MAX_SUMMARIES_PER_CATEGORY)
  /\ [][\A h \in Handlers :
          (/\ hpc[h] = "gotEvent"
           /\ hpc'[h] # "gotEvent"
           /\ hval[h] # NoEvent
           /\ API_BUDGET[JobCategory(hval[h])] = MAX_SUMMARIES_PER_CATEGORY)
          => /\ hresp'[h].status = "budget_exhausted"
             /\ hpc'[h] = "idle"
             /\ pendingEvents' = pendingEvents
             /\ inMemoryQueue' = inMemoryQueue
             /\ redisList' = redisList
             /\ API_BUDGET' = API_BUDGET]_vars

\* Ceiling 1, two distinct events of one category: the first request has
\* its job enqueued, the second is rejected.
C4_Witness ==
  /\ MAX_SUMMARIES_PER_CATEGORY = 1
  /\ events["e1"] # NoEvent
  /\ events["e1"] = events["e2"]
  /\ hid["h1"] # hid["h2"]
  /\ hresp["h1"].status = "generating"
  /\ hresp["h2"].status = "budget_exhausted"
  /\ API_BUDGET[events["e1"]] = 1
  /\ pendingEvents = {hid["h1"]}
  /\ JobsOutstanding(hid["h1"]) = 1
  /\ JobsOutstanding(hid["h2"]) = 0

\* C5: canGenerateSummary(category) is true exactly when the counter of the
\* category is strictly below the ceiling, for every counter value that
\* increments and resets reach (0 up to the ceiling).
C5_CanGenerateIffBelowCeiling ==
  \A c \in BudgetCategories :
    /\ API_BUDGET[c] \in 0..MAX_SUMMARIES_PER_CATEGORY
    /\ canGenerateSummary(c) <=> (API_BUDGET[c] < MAX_SUMMARIES_PER_CATEGORY)

\* After a reset a counter has been incremented up to the ceiling again
\* and the gate is closed for its category.
C5_Witness ==
  /\ resets > 0
  /\ rpc = "idle"
  /\ \E c \in BudgetCategories :
       /\ API_BUDGET[c] = MAX_SUMMARIES_PER_CATEGORY
       /\ ~canGenerateSummary(c)

C7_MalformedJsonDropsJob ==
  [][(wpc = "generating" /\ wpc' \in {"idle", "requeued"}) =>
       LET error == IF wpc' = "requeued" THEN werror' ELSE broadcastMsg'.body
       IN  error.cause = "malformed_json" =>
             /\ wpc' = "idle"
             /\ QueueItems' = QueueItems
             /\ broadcastMsg'.kind = "error"
             /\ wjob.eventId \notin pendingEvents']_vars

\* C8: when POST /reset ends and no other operation took a step while it
\* ran, the events and summaries tables are empty, the normal counter is
\* zero, the Work Queue is empty, both budget counters are zero, PendingSet
\* is empty and a 'reset' message was written to every connected
\* subscriber.
C8_ResetClearsEverything ==
  [][(rpc = "queueCleared" /\ rpc' = "idle" /\ resetAlone) =>
       /\ \A id \in EventIds : getEvent(events', id) = NoEvent
       /\ summaries' = {}
       /\ normalCounter' = 0
       /\ inMemoryQueue' = <<>>
       /\ redisList' = <<>>
       /\ \A c \in BudgetCategories : API_BUDGET'[c] = 0
       /\ pendingEvents' = {}
       /\ broadcastMsg'.kind = "reset"
       /\ broadcastMsg'.attempted = sseClients]_vars

\* A reset that ran alone has just ended, after the pipeline had stored
\* events and called the completion service, with a subscriber connected.
C8_Witness ==
  /\ broadcastMsg.kind = "reset"
  /\ broadcastMsg.attempted # {}
  /\ resetAlone
  /\ rpc = "idle"
  /\ called # {}

\* C9: from the end of a reset until the next summary request is accepted,
\* no Summary is stored, no job enters the Work Queue and no id enters
\* PendingSet, whatever the worker and the handlers had under way.
C9_NothingSurvivesReset ==
  [][(afterReset = "yes" /\ afterReset' = "yes") =>
       /\ summaries' \subseteq summaries
       /\ Len(QueueItems') <= Len(QueueItems)
       /\ pendingEvents' \subseteq pendingEvents]_vars

C11_SuccessCompletes ==
  /\ ppc \in {"requested", "sending"}
  /\ ppc' = "sleeping"
  /\ pollStatus' \in {"200", "304"}

C11_BackoffMonotoneUntilSuccess ==
  [][ /\ C11_SuccessCompletes => currentBackoff' = initialBackoff
      /\ ~C11_SuccessCompletes => currentBackoff' >= currentBackoff ]_vars

\* Consecutive failures have driven the counter from the floor to the ceiling.
C11_Witness ==
  /\ ppc = "backingOff"
  /\ pollStatus \in {"403", "429", "error"}
  /\ currentBackoff = maxBackoff

\* C12: every wait computed after a non-success cycle, from the retry-after
\* header or from the backoff counter, lies within [initialBackoff, maxBackoff].
C12_WaitWithinBounds ==
  ppc = "backingOff" => (initialBackoff <= waitTime /\ waitTime <= maxBackoff)

\* C13: with a fixed backend the queue is FIFO: the jobs popped so far,
\* followed by the jobs still queued, are the jobs pushed, in push order (a
\* requeue being a push); so pop returns jobs in push order and a requeued
\* job comes out after every job that was queued when it was requeued.
C13_PopsInPushOrder ==
  started => poppedLog \o QueueItems = PushedJobs

\* A requeued job has been popped again, after a different job that was in
\* the queue when it was requeued.
C13_Witness ==
  \E i \in 3..Len(pushedLog) :
    /\ pushedLog[i].requeued
    /\ Len(poppedLog) >= i
    /\ poppedLog[i] = pushedLog[i].job
    /\ poppedLog[i - 1] # poppedLog[i]

\* C14: once the queue has fallen back to the in-process backend it never
\* switches back, whatever events the client emits afterwards.
C14_FallbackIsPermanent ==
  [][(started /\ useInMemory) => useInMemory']_vars

\* C15: in every reachable state each event id in pendingEvents has a job
\* that is outstanding (in the queue or held by the worker); no id stays in
\* pendingEvents with no outstanding job.
C15_PendingHasOutstandingJob ==
  \A id \in pendingEvents : JobsOutstanding(id) >= 1

\* C16: a per-category budget counter never decreases between resets: the
\* step that ends the reset handler sets it to zero, and every other step
\* leaves it unchanged or increases it by exactly one.
C16_ResetEnds == rpc = "queueCleared" /\ rpc' = "idle"

C16_CountersStepByOne ==
  [][ \A c \in BudgetCategories :
        IF C16_ResetEnds
          THEN API_BUDGET'[c] = 0
          ELSE API_BUDGET'[c] \in {API_BUDGET[c], API_BUDGET[c] + 1} ]_vars

\* A reset has zeroed the counters after a request had advanced one (its job
\* reached the completion API).
C16_Witness ==
  /\ resets > 0
  /\ rpc = "idle"
  /\ called # {}
  /\ \A c \in BudgetCategories : API_BUDGET[c] = 0

\* C17: a summary request for an event whose Summary exists returns that
\* Summary, removes the event id from pendingEvents if present, and leaves
\* the queue and the budget counters unchanged.
C17_ExistingSummaryReturned ==
  [][ \A h \in Handlers :
        /\ (hpc[h] = "idle" /\ hpc'[h] = "gotSummary")
             => hval'[h] = getSummaryByEventId(summaries, hid'[h])
        /\ (hpc[h] = "gotSummary" /\ hval[h] # NoSummary /\ hpc'[h] # hpc[h])
             => /\ hpc'[h] = "idle"
                /\ hresp'[h] = [status |-> "summary",
                                body |-> getSummaryByEventId(summaries, hid[h])]
                /\ pendingEvents' = pendingEvents \ {hid[h]}
                /\ QueueItems' = QueueItems
                /\ API_BUDGET' = API_BUDGET ]_vars

\* A request found the Summary the worker had just stored and removed the id
\* from pendingEvents before the worker's callback did.
C17_Witness ==
  \E h \in Handlers :
    /\ hpc[h] = "idle"
    /\ hresp[h].status = "summary"
    /\ wpc = "stored"
    /\ wjob.eventId = hid[h]
    /\ hid[h] \notin pendingEvents

\* C18: broadcast attempts a write to every connected subscriber; a
\* subscriber whose write throws is removed from sseClients, and every other
\* subscriber receives the message and stays in the set.
C18_BroadcastReachesAllAndDropsFailed ==
  [][ broadcastMsg'.kind # "none" =>
        /\ broadcastMsg'.attempted = sseClients
        /\ broadcastMsg'.failed \subseteq sseClients
        /\ broadcastMsg'.delivered = sseClients \ broadcastMsg'.failed
        /\ sseClients' = sseClients \ broadcastMsg'.failed ]_vars

\* A broadcast to two subscribers: one write threw, the other subscriber got
\* the message and is still subscribed.
C18_Witness ==
  /\ broadcastMsg.kind = "event"
  /\ broadcastMsg.failed # {}
  /\ broadcastMsg.delivered # {}
  /\ sseClients = broadcastMsg.delivered

\* C19: an item whose id is in seenEventIds is not scored or forwarded again;
\* every item of a 200 response whose id is not in seenEventIds is inserted
\* into seenEventIds and forwarded exactly once in that cycle.
Occurrences(seq, id) == Cardinality({i \in 1..Len(seq) : seq[i] = id})

C19_SeenNeverForwardedNewOnce ==
  /\ [](ppc = "sending" => forwarded = newEvents)
  /\ [](ppc \in {"requested", "scoring"} => forwarded = <<>>)
  /\ [][ /\ (ppc = "requested" /\ pollStatus' = "200") =>
              \A id \in Range(pollData') \cup Range(newEvents') :
                IF id \in Range(seenEventIds)
                  THEN Occurrences(newEvents', id) = 0
                  ELSE /\ Occurrences(newEvents', id) = 1
                       /\ id \in Range(seenEventIds')
                       /\ ppc' = "scoring"
         /\ ppc = "scoring" => (ppc' = "sending" /\ newEvents' = newEvents)
         /\ (ppc = "sending" /\ ppc' # "sending") =>
              Range(forwarded) \subseteq Range(seenEventIds') ]_vars

\* A response held an id already seen and a fresh one: only the fresh one
\* was forwarded.
C19_Witness ==
  /\ ppc = "sending"
  /\ forwarded # <<>>
  /\ \E i \in 1..Len(pollData) :
       /\ pollData[i] \notin Range(forwarded)
       /\ pollData[i] \in Range(seenEventIds)

\* C20: after every completed poll cycle seenEventIds holds at most 1000 ids,
\* and when the trim occurs the ids kept are exactly the 1000 inserted most
\* recently, in their order (the oldest are evicted).
C20_SeenBoundedKeepsNewest ==
  /\ [](ppc \notin {"scoring", "sending"} => Len(seenEventIds) <= SeenCeiling)
  /\ [](Cardinality(Range(seenEventIds)) = Len(seenEventIds))
  /\ [][ (ppc = "sending" /\ ppc' # "sending") =>
           LET over == Len(seenEventIds) - SeenCeiling IN
             IF over > 0
               THEN /\ Len(seenEventIds') = SeenCeiling
                    /\ \A i \in 1..SeenCeiling :
                         seenEventIds'[i] = seenEventIds[over + i]
               ELSE seenEventIds' = seenEventIds ]_vars

\* A cycle has ended with a trim: the set is full, its oldest id is no longer
\* the first id issued, and its newest id is the last one issued.
C20_Witness ==
  /\ ppc = "sleeping"
  /\ Len(seenEventIds) = SeenCeiling
  /\ seenEventIds[1] > 1
  /\ seenEventIds[SeenCeiling] = nextId - 1
  /\ Len(forwarded) = PerPage

\* C21: the poller loop never terminates and never stays stuck: after a
\* rate-limit response, an unexpected status code or a network/parse error it
\* always eventually issues another feed fetch.
C21_NonSuccessPending ==
  \/ ppc = "backingOff"
  \/ ppc = "sleeping" /\ pollStatus = "500"

C21_AlwaysFetchesAgain == C21_NonSuccessPending ~> ppc = "requested"

\* A fetch is in flight while the counter is still raised by the failures
\* before it.
C21_Witness ==
  /\ ppc = "requested"
  /\ currentBackoff > initialBackoff

\* C22: after a feed response with an unexpected status code the poller
\* increases the backoff counter and waits the resulting backoff interval
\* before the next fetch, as it does after a network error.
C22_UnexpectedStatusWaitsBackoff ==
  (ppc \in {"sleeping", "backingOff"} /\ pollStatus \in {"500", "error"})
    => SleepTime = currentBackoff

\* C23: the category of an item is a function of the two scorer verdicts:
\* 'both' when the security verdict is anomalous and the code-quality verdict
\* is not-good-practice, 'security' when only the first fires, 'code_quality'
\* when only the second fires, 'normal' otherwise; an absent result counts as
\* not firing.
C23_CategoryFromVerdicts ==
  \A i \in 1..Len(scored) :
    LET fires1 == scored[i].security = "anomalous"
        fires2 == scored[i].quality = "not_good_practice"
    IN  /\ scored[i].category = "both" <=> (fires1 /\ fires2)
        /\ scored[i].category = "security" <=> (fires1 /\ ~fires2)
        /\ scored[i].category = "code_quality" <=> (~fires1 /\ fires2)
        /\ scored[i].category = "normal" <=> (~fires1 /\ ~fires2)

\* An item was scored with both verdicts firing.
C23_Witness ==
  /\ ppc = "sending"
  /\ Len(scored) = 1
  /\ scored[1].category = "both"
  /\ scored[1].security = "anomalous"
  /\ scored[1].quality = "not_good_practice"

\* C24: when no completion-service credential is configured, start does not
\* start the drain loop: the worker never pops a job and never calls the
\* completion API, while /internal/event still stores and broadcasts events.
C24_NoKeyNoWorkerIngestionWorks ==
  /\ [](~apiKey =>
          /\ ~running
          /\ wpc = "idle"
          /\ wjob = NoJob
          /\ called = {}
          /\ summaries = {})
  /\ [](( ~apiKey /\ started) =>
          \A id \in EventIds :
            getEvent(events, id) = NoEvent => ENABLED InternalEvent(id, "security"))
  /\ [][~apiKey =>
          /\ Len(QueueItems') >= Len(QueueItems)
          /\ (events' # events =>
                /\ broadcastMsg'.kind = "event"
                /\ broadcastMsg'.attempted = sseClients
                /\ \E id \in EventIds :
                     /\ broadcastMsg'.eventId = id
                     /\ getEvent(events, id) = NoEvent
                     /\ getEvent(events', id) # NoEvent)]_vars

\* Without a credential an event has just been stored and broadcast to a
\* subscriber while a job enqueued earlier waits in the queue, unpopped.
C24_Witness ==
  /\ ~apiKey
  /\ started
  /\ broadcastMsg.kind = "event"
  /\ broadcastMsg.delivered # {}
  /\ getEvent(events, broadcastMsg.eventId) # NoEvent
  /\ QueueItems # <<>>

\* The step is a call of fetchRepoContext(r): it returns at once, or it
\* issues the GraphQL request.
FetchCalled(r) ==
  /\ fpc = "idle"
  /\ \/ fpc' = "graphql" /\ frepo' = r
     \/ /\ fpc' = "idle"
        /\ fcall' # fcall
        /\ fcall'.op = "fetchRepoContext"
        /\ fcall'.repo = r

ClearCalled == fcall' # fcall /\ fcall'.op = "clearOldCache"

\* C25: fetchRepoContext returns absent without a network call and without
\* changing the cache when there is no fresh cache entry, the last recorded
\* rate limit has fewer remaining points than the floor, and its reset time
\* has not passed.
C25_BelowFloorSkipsFetch ==
  [][ \A r \in RepoNames :
        ( /\ FetchCalled(r)
          /\ ~(cache[r] # NoEntry /\ now - cache[r].timestamp < CACHE_TTL)
          /\ lastGraphQLRateLimit # NoRateLimit
          /\ lastGraphQLRateLimit.remaining < MinPoints
          /\ now \div 1000 < lastGraphQLRateLimit.reset )
        => /\ fpc' = "idle"
           /\ fcall'.result = Absent
           /\ cache' = cache ]_vars

\* A call for a repository whose entry has expired returned absent while the
\* recorded rate limit is below the floor and not yet reset.
C25_Witness ==
  \E r \in RepoNames :
    /\ fpc = "idle"
    /\ fcall = [op |-> "fetchRepoContext", at |-> now, repo |-> r,
                 result |-> Absent]
    /\ validName(r)
    /\ cache[r] # NoEntry
    /\ now - cache[r].timestamp >= CACHE_TTL
    /\ lastGraphQLRateLimit # NoRateLimit
    /\ lastGraphQLRateLimit.remaining < MinPoints
    /\ now \div 1000 < lastGraphQLRateLimit.reset

\* C26 (as stated): a call for a repository with an entry younger than the
\* TTL returns the cached context without a network call; on a miss or an
\* entry at least TTL old it fetches again and on success replaces the entry
\* with a fresh timestamp; clearOldCache removes only entries older than TTL.
C26_Younger(entry) == entry # NoEntry /\ now - entry.timestamp < CACHE_TTL

C26_CachedReturned ==
  \A r \in RepoNames :
    (FetchCalled(r) /\ C26_Younger(cache[r]))
      => /\ fpc' = "idle"
         /\ fcall'.result = cache[r].data
         /\ cache' = cache

C26_SuccessReplaces ==
  (fpc = "checkRuns" /\ fpc' = "idle")
    => /\ fcall'.repo = frepo
       /\ fcall'.result.repo = frepo
       /\ cache'[frepo] = [data |-> fcall'.result, timestamp |-> now]
       /\ \A r \in RepoNames \ {frepo} : cache'[r] = cache[r]

C26_ClearRemovesOlder ==
  /\ ClearCalled =>
       \A r \in RepoNames :
         cache'[r] = IF cache[r] # NoEntry /\ now - cache[r].timestamp > CACHE_TTL
                       THEN NoEntry ELSE cache[r]
  /\ \A r \in RepoNames :
       (cache[r] # NoEntry /\ cache'[r] = NoEntry) => ClearCalled

C26_MissAlwaysFetches ==
  [][ /\ C26_CachedReturned
      /\ \A r \in RepoNames :
           (FetchCalled(r) /\ ~C26_Younger(cache[r]) /\ validName(r))
             => fpc' = "graphql"
      /\ C26_SuccessReplaces
      /\ C26_ClearRemovesOlder ]_vars

\* C26 (amended): on a miss or an entry at least TTL old the call fetches
\* again if the rate-limit gate is open and the name is owner/name, and
\* otherwise returns absent without a network call.
C26_MissFetchesIfGateOpen ==
  [][ /\ C26_CachedReturned
      /\ \A r \in RepoNames :
           (FetchCalled(r) /\ ~C26_Younger(cache[r]))
             => LET open == \/ lastGraphQLRateLimit = NoRateLimit
                            \/ now \div 1000 >= lastGraphQLRateLimit.reset
                            \/ lastGraphQLRateLimit.remaining >= MinPoints
                IN  IF open /\ r # "noslash"
                      THEN fpc' = "graphql" /\ cache' = cache
                      ELSE fpc' = "idle" /\ fcall'.result = Absent /\ cache' = cache
      /\ C26_SuccessReplaces
      /\ C26_ClearRemovesOlder ]_vars

\* A repository was fetched again once its entry was at least TTL old and
\* the new entry carries the current time, while the entry of another
\* repository, by now exactly TTL old, is still in the cache after a clear.
C26_Witness ==
  \E r1, r2 \in RepoNames :
    /\ r1 # r2
    /\ cache[r1].timestamp >= CACHE_TTL
    /\ cache[r1].data.fetchedAt = cache[r1].timestamp
    /\ cache[r2] # NoEntry
    /\ now - cache[r2].timestamp = CACHE_TTL
    /\ fcall.op = "clearOldCache"

\* C27: an enrichment that fails or is unavailable (network error, timeout,
\* API error, budget skip, no fetcher) never fails the poll cycle: the scoring
\* step always ends with every new item scored on both axes, with absent
\* context where the enrichment gave none, and forwarded to the backend, and
\* the step after it ends the cycle as a success (backoff reset, normal sleep).
C27_EnrichmentNeverFailsCycle ==
  /\ [][ppc = "scoring" =>
          /\ ppc' = "sending"
          /\ forwarded' = newEvents
          /\ Len(scored') = Len(newEvents)
          /\ \A i \in 1..Len(newEvents) :
               /\ scored'[i].id = newEvents[i]
               /\ scored'[i].repoContext \in {"context", "absent"}
               /\ scored'[i].security \in SecurityVerdicts
               /\ scored'[i].quality \in QualityVerdicts
               /\ scored'[i].category =
                    categorize(scored'[i].security, scored'[i].quality)]_vars
  /\ [][ppc = "sending" =>
          /\ ppc' = "sleeping"
          /\ currentBackoff' = resetBackoff
          /\ pollStatus' = "200"
          /\ UNCHANGED <<forwarded, scored>>]_vars

\* A cycle that ended as a success although an item's enrichment gave no
\* context: the item was scored on both axes and forwarded.
C27_Witness ==
  /\ ppc = "sleeping"
  /\ pollStatus = "200"
  /\ currentBackoff = initialBackoff
  /\ \E i \in 1..Len(scored) :
       /\ scored[i].repoContext = "absent"
       /\ scored[i].security = "anomalous"
       /\ scored[i].quality = "not_good_practice"
       /\ forwarded[i] = scored[i].id

\* C28: two consecutive getAllEvents calls with the same options and no write
\* between them return the same sequence; every returned sequence holds each
\* selected row at most once, ordered by created_at ascending and, for equal
\* created_at, by id ascending, and is cut at the limit.
C28_StableOrderedListing ==
  /\ Len(listed) = 2 /\ listed[1].limit = listed[2].limit
                     /\ listed[1].category = listed[2].category
       => listed[1].rows = listed[2].rows
  /\ \A k \in 1..Len(listed) :
       LET rows == listed[k].rows
           ids == selected(events, listed[k].category)
       IN  /\ Range(rows) \subseteq ids
           /\ Len(rows) = Min(listed[k].limit, Cardinality(ids))
           /\ \A i, j \in 1..Len(rows) :
                i < j => \/ createdAt[rows[i]] < createdAt[rows[j]]
                         \/ /\ createdAt[rows[i]] = createdAt[rows[j]]
                            /\ idRank(rows[i]) < idRank(rows[j])
           /\ \A id \in ids \ Range(rows) : \A i \in 1..Len(rows) :
                \/ createdAt[rows[i]] < createdAt[id]
                \/ /\ createdAt[rows[i]] = createdAt[id]
                   /\ idRank(rows[i]) < idRank(id)

\* Two consecutive calls listed two events of the same created_at, in id order.
C28_Witness ==
  /\ Len(listed) = 2
  /\ listed[1] = listed[2]
  /\ listed[1].rows = <<"e1", "e2">>
  /\ createdAt["e1"] = createdAt["e2"]

\* C29: the worker pushes the held job back onto the Work Queue only when the
\* completion call failed with a rate-limit indication (HTTP 429); any other
\* failure (malformed JSON, no JSON found, network error, other HTTP error)
\* is terminal: the error callback is invoked in that step and the queue is
\* left as it was.
C29_OnlyRateLimitRequeues ==
  [][(wpc = "generating" /\ wpc' \in {"idle", "requeued"}) =>
       LET error == IF wpc' = "requeued" THEN werror' ELSE broadcastMsg'.body
       IN  /\ wpc' = "requeued" => error.cause = "http_429"
           /\ error.cause # "http_429" =>
                /\ broadcastMsg'.kind = "error"
                /\ broadcastMsg'.eventId = wjob.eventId
                /\ QueueItems' = QueueItems]_vars

\* C30: when the worker has popped a job and found a stored Summary for its
\* event id, it drops the job: the completion API is not called, the
\* summaries table is not written, no summary or error is broadcast, the
\* Work Queue is left as it was, and the worker goes back to its loop
\* holding nothing.
C30_ExistingSummaryDropsJob ==
  [][(wpc = "checked" /\ wpc' # "checked" /\ wexisting # NoSummary) =>
       /\ wpc' = "idle"
       /\ wjob' = NoJob
       /\ called' = called
       /\ summaries' = summaries
       /\ broadcastMsg' = NoBroadcast
       /\ QueueItems' = QueueItems
       /\ processingEvents' = processingEvents
       /\ UNCHANGED <<API_BUDGET, pendingEvents>>]_vars

\* The worker holds a popped job of an event whose Summary is stored, and has
\* read that Summary.
C30_Witness ==
  /\ wpc = "checked"
  /\ wexisting # NoSummary
  /\ wexisting = getSummaryByEventId(summaries, wjob.eventId)
  /\ wjob.eventId \notin processingEvents

\* C31: whenever processJob ends after it marked the event as processing -
\* by success, by a rate-limit requeue, by a terminal failure or by a requeue
\* whose push failed - the job's event id is not in processingEvents.
C31_ProcessingClearedOnExit ==
  [][(wpc \in {"generating", "stored", "requeued"}
        /\ wpc' \in {"idle", "loopCatch"}) =>
       /\ wjob.eventId \in processingEvents
       /\ wjob.eventId \notin processingEvents']_vars

\* processJob has ended by a failed requeue push: the job is in no queue, no
\* summary is stored, and the processing set is empty.
C31_Witness ==
  /\ wpc = "loopCatch"
  /\ called = {"e1"}
  /\ QueueItems = <<>>
  /\ summaries = {}
  /\ broadcastMsg.kind = "none"
  /\ "e1" \in pendingEvents
  /\ processingEvents = {}

\* C32: on success the Summary is persisted before the completion callback
\* runs: while the worker stands between storeSummary and the callback a
\* Summary of the job's event is stored, and the step that broadcasts a
\* 'summary' message for an event writes nothing to the summaries table and
\* ends with a Summary of that event stored and the event out of PendingSet.
C32_StoredBeforeBroadcast ==
  /\ [](wpc = "stored" =>
          getSummaryByEventId(summaries, wjob.eventId) # NoSummary)
  /\ [][broadcastMsg'.kind = "summary" =>
          /\ wpc = "stored"
          /\ broadcastMsg'.eventId = wjob.eventId
          /\ summaries' = summaries
          /\ getSummaryByEventId(summaries', broadcastMsg'.eventId) # NoSummary
          /\ broadcastMsg'.eventId \notin pendingEvents']_vars

\* A 'summary' message of an event that was pending has just been written to
\* a subscriber.
C32_Witness ==
  /\ broadcastMsg.kind = "summary"
  /\ broadcastMsg.delivered # {}
  /\ getSummaryByEventId(summaries, broadcastMsg.eventId) = broadcastMsg.body
  /\ broadcastMsg.eventId \notin pendingEvents
  /\ pendingEvents # {}

\* C33: for every reply that parses, the classification parseSummaryResponse
\* gives is one of ACTIVE_ATTACK, POLICY_VIOLATION, BENIGN_ANOMALY:
\* CRITICAL_ISSUE gives ACTIVE_ATTACK, POOR_PRACTICE gives POLICY_VIOLATION,
\* MINOR_CONCERN gives BENIGN_ANOMALY, a canonical value is kept, a missing or
\* any other value gives POLICY_VIOLATION, and the job goes on to store a
\* Summary of that classification.
C33_ClassificationNormalized ==
  /\ [](\A r \in summaries : r.content \in validClasses)
  /\ [][(wpc = "generating" /\ wpc' # "generating") =>
          /\ wpc' = "stored"
          /\ wexisting' \in validClasses
          /\ wexisting' =
               CASE wreply' = "CRITICAL_ISSUE" -> "ACTIVE_ATTACK"
                 [] wreply' = "POOR_PRACTICE" -> "POLICY_VIOLATION"
                 [] wreply' = "MINOR_CONCERN" -> "BENIGN_ANOMALY"
                 [] wreply' \in validClasses -> wreply'
                 [] OTHER -> "POLICY_VIOLATION"
          /\ getSummaryByEventId(summaries', wjob.eventId) # NoSummary]_vars

\* A reply with a classification outside both vocabularies was parsed and its
\* Summary stored as POLICY_VIOLATION, next to a Summary that came from the
\* mapping table.
C33_Witness ==
  /\ wpc = "stored"
  /\ wreply = "UNKNOWN"
  /\ wexisting = "POLICY_VIOLATION"
  /\ [event_id |-> wjob.eventId, content |-> "POLICY_VIOLATION"] \in summaries
  /\ \E r \in summaries : r.content = "BENIGN_ANOMALY"

\* C34: the axis of a summary request is a function of the stored category:
\* the request of an event stored as 'code_quality' increments the
\* code_quality counter and enqueues a job that buildPrompt gives the
\* code-quality template; the request of an event stored under any other
\* category, 'both' included, increments the security counter and enqueues a
\* job that buildPrompt gives the security template.
C34_AxisFromStoredCategory ==
  [][\A h \in Handlers :
       (hpc[h] = "gotEvent" /\ hpc'[h] = "pushed") =>
         LET axis == IF hval[h] = "code_quality" THEN "code_quality" ELSE "security"
             job == QueueItems'[Len(QueueItems')]
         IN  /\ Len(QueueItems') = Len(QueueItems) + 1
             /\ job.eventId = hid[h]
             /\ job.category = axis
             /\ API_BUDGET' = [API_BUDGET EXCEPT ![axis] = @ + 1]
             /\ buildPrompt(job) = IF axis = "code_quality"
                                     THEN "code_quality_template"
                                     ELSE "security_template"]_vars

\* The worker holds the security job of an event stored as 'both' while the
\* code_quality job of an event stored as 'code_quality' waits in the queue.
C34_Witness ==
  /\ wpc = "generating"
  /\ getEvent(events, wjob.eventId) = "both"
  /\ buildPrompt(wjob) = "security_template"
  /\ API_BUDGET["security"] = 1
  /\ API_BUDGET["code_quality"] = 1
  /\ \E i \in 1..Len(QueueItems) :
       /\ getEvent(events, QueueItems[i].eventId) = "code_quality"
       /\ buildPrompt(QueueItems[i]) = "code_quality_template"

\* C35: in every reachable state, with summary requests running
\* concurrently, each budget counter is at most the ceiling, and a step that
\* enqueues a job for a summary request starts with the counter of the job's
\* category below the ceiling and raises it by one.
C35_BudgetNeverAboveCeiling ==
  /\ [](\A c \in BudgetCategories : API_BUDGET[c] <= MAX_SUMMARIES_PER_CATEGORY)
  /\ [][\A h \in Handlers :
          (hpc[h] = "gotEvent" /\ hpc'[h] = "pushed") =>
            LET c == JobCategory(hval[h])
            IN  /\ API_BUDGET[c] < MAX_SUMMARIES_PER_CATEGORY
                /\ API_BUDGET'[c] = API_BUDGET[c] + 1]_vars

\* Two concurrent requests met the last unit of the budget: one enqueued its
\* job, the other was refused after both had passed the pending check.
C35_Witness ==
  /\ MAX_SUMMARIES_PER_CATEGORY >= 1
  /\ API_BUDGET["security"] = MAX_SUMMARIES_PER_CATEGORY
  /\ hresp["h1"].status = "generating"
  /\ hresp["h2"].status = "budget_exhausted"
  /\ hid["h1"] = hid["h2"]
  /\ Len(QueueItems) = MAX_SUMMARIES_PER_CATEGORY

\* C36: the worker is a single consumer that awaits each job before it pops
\* the next: processingEvents holds at most one event id in every reachable
\* state, that id is the held job's and is there exactly while a completion
\* call or what follows it is in progress, and processingEvents is empty
\* whenever the worker calls pop or waits in it.
C36_SingleConsumer ==
  /\ Cardinality(processingEvents) <= 1
  /\ wpc \in {"generating", "stored", "requeued"} <=>
       processingEvents = {wjob.eventId}
  /\ wpc \in {"idle", "popWait", "blpop", "popped", "checked"} =>
       processingEvents = {}
  /\ ENABLED WorkerPop => processingEvents = {}

\* A completion call is in flight for one job while the job of another event
\* waits in the queue.
C36_Witness ==
  /\ wpc = "generating"
  /\ processingEvents = {wjob.eventId}
  /\ Len(QueueItems) >= 1
  /\ QueueItems[1].eventId # wjob.eventId

C38_PendingEventuallyCleared ==
  \A id \in EventIds :
    (running /\ id \in pendingEvents) ~> (id \notin pendingEvents)

\* C39: when queue.push fails inside a summary request, the request is
\* answered with an error and PendingSet and the budget counters are as they
\* were before the enqueue sequence began.
C39_FailedEnqueueRollsBack ==
  [][\A h \in Handlers :
       (hpc[h] = "gotEvent" /\ hresp'[h].status = "error") =>
         /\ pendingEvents' = pendingEvents
         /\ API_BUDGET' = API_BUDGET]_vars

\* C40: a 'summary' message is broadcast for an event id at most once
\* between two resets, only by the job whose storeSummary call inserted the
\* row, and with the content of the Summary stored for that event.
C40_SummaryBroadcastOnce ==
  /\ [](\A id \in EventIds : announced[id] <= 1)
  /\ [][(wpc = "generating" /\ wpc' = "stored") =>
          /\ wasInserted(summaries, wjob.eventId)
          /\ ~wasInserted(summaries', wjob.eventId)]_vars
  /\ [][broadcastMsg'.kind = "summary" =>
          /\ wpc = "stored"
          /\ broadcastMsg'.eventId = wjob.eventId
          /\ broadcastMsg'.body = wexisting
          /\ broadcastMsg'.body =
               getSummaryByEventId(summaries', broadcastMsg'.eventId)]_vars

\* Two jobs of one event were enqueued; the first stored and broadcast its
\* Summary, the second was popped and dropped, and the message went out once.
C40_Witness ==
  /\ announced["e1"] = 1
  /\ API_BUDGET["security"] = 2
  /\ getEvent(events, "e2") = NoEvent
  /\ getSummaryByEventId(summaries, "e1") # NoSummary
  /\ QueueItems = <<>>
  /\ wpc = "idle"
  /\ called = {"e1"}

====
